---------------------------- MODULE Spec2Model ----------------------------
(***************************************************************************)
(* A model of the MCP engine and the ReAct orchestrator of voice-agent:    *)
(*   - the stdio MCP server (crates/lib/src/mcp_server.rs),                *)
(*   - the tool access layer it dispatches to (crates/lib/src/tool.rs),    *)
(*   - the ReAct loop (crates/lib/src/react.rs),                           *)
(*   - the stdio MCP client (crates/lib/src/mcp_client.rs).                *)
(* Each component has its own specification (SpecServer, SpecReact,        *)
(* SpecClient); the variables of the other components stay at their        *)
(* initial values.                                                         *)
(***************************************************************************)
EXTENDS Integers, Sequences, FiniteSets, TLC

VARIABLES
    \* ---- stdio server: McpServer::run_with ----
    srvTools,     \* the &dyn ToolAccess the server was built over
    srvPc,        \* "reading" | "returned_ok" | "returned_err"
    srvOut,       \* the reply lines written to the writer, in order
    srvLog,       \* history: one entry per line taken from the reader
    procReq,      \* history: argument of the last direct McpServer::process call
    procRet,      \* history: what that call returned and which tools it invoked
    httpReq,      \* history: the last HTTP request the HTTP server dispatched
    httpResp,     \* history: the HTTP response to it and the tools it invoked
    httpPending,  \* connections waiting in server.incoming_requests()
    httpCur,      \* the request dispatch_http_request is working on, if any
    \* ---- ReAct loop: react::run ----
    reactTools,   \* the &dyn ToolAccess passed to run
    messages,     \* the transcript (&mut Vec<ChatMessage>)
    initial,      \* history: the transcript the caller passed in
    max_iter,     \* max_iterations.unwrap_or(DEFAULT_MAX_ITERATIONS)
    iteration,    \* the loop variable of `for iteration in 0..max_iter`
    reactPc,      \* "CallModel" | "ExecuteTools" | "Done" | "Failed"
    calls,        \* the tool calls of the current model turn
    callIdx,      \* number of calls of the current turn already executed
    result,       \* what run returned (None while running)
    modelLog,     \* history: one entry per model invocation
    toolLog,      \* history: one entry per ToolAccess::call made by run
    cache,        \* per registered handler: the state behind dynamic_description
    tool_defs,    \* run's local `tool_defs`
    \* ---- MCP clients: McpClient (stdio) and McpHttpClient ----
    client_kind,         \* which client this is: "stdio" | "http"
    phase,        \* where connect is: "initialize" | "notify" | "tools/list" |
                  \*   "connected" | "failed"
    transport,    \* the Mutex<Transport>: None, or Some(thread holding it)
    next_id,      \* the AtomicU64
    server_info,  \* Mutex<Option<Implementation>>
    client_tools, \* Mutex<Vec<ToolInfo>>
    refs,         \* the holders of the Arc: thread 0 (the caller of connect)
                  \*   and the remote tool proxies 1..NumCallers
    child_slot,   \* McpClient.child, the Mutex<Option<Child>>: "Some" | "None"
    kills,        \* how many times the child was killed and waited for
    cpc,          \* per thread: where it is inside send_request/send_notification
    cur,          \* per thread: the request it is sending
    last_ret,     \* history: the last return of send_request and of its caller
    handshake,    \* history: the steps of connect that completed, in order
    child,        \* the subprocess: "running" | "exited" | "reaped"
    child_stdin,  \* lines written to the child and not yet read by it
    child_stdout, \* lines written by the child and not yet read by the client
    wire,         \* history: every message the client sent, with its sender
    cli_session_id,   \* McpHttpClient.session_id, the Mutex<Option<String>>
    last_sid,     \* history: the Mcp-Session-Id of the last response that had one
    hdr,          \* per thread: the Mcp-Session-Id set on the POST it has built
    \* ---- the SSE helpers of mcp.rs, applied to one response ----
    sseResp,      \* the JsonRpcResponse at hand
    ssePc,        \* "made" | "event" | "json" | "parsed"
    sseBody,      \* the text made of it: the SSE event or the bare JSON
    sseParsed,    \* what parse_sse_response returned for that text
    \* ---- a FilteredToolRegistry and what its operations returned ----
    view,         \* the view: the registry's handlers and the allow-list
    viewDefs,     \* what get_definitions() returned last
    viewEmpty,    \* what is_empty() returned last
    viewCall,     \* what call(name, args) returned last
    \* ---- the EventRouter and its thread ----
    event_rx,     \* the event channel: what was fed and not yet received
    event_tx,     \* whether the sender of the event channel is alive
    fed,          \* events fed so far
    buffer,       \* run_loop's `buffer`
    routerPc,     \* the router thread: "running" | "ended"
    summary_rx,   \* the summary channel: summaries sent and not yet drained
    drained,      \* the summaries drain_summaries returned, in order
    routerLog,    \* history: the events the thread received, each with the
                  \*   buffer it found
    \* ---- CaptureScreenTool, the capture bridge and the host side ----
    capCache,     \* CaptureScreenTool.cache: None or Some(metadata)
    calls_since_capture, \* the AtomicU64 of that name
    capNextId,    \* CaptureScreenTool.next_id
    capPc,        \* the calling thread: "idle" | "waiting" (in recv_timeout)
    capCur,       \* the call that waits: its arguments' kind and request id
    capRet,       \* what the last call returned
    request_rx,   \* the request channel: requests not yet drained
    hostHeld,     \* requests the host has drained and not yet answered
    capture_result_rx, \* the result channel of capture_screen
    capCalls,     \* calls made so far
    capTimeouts,  \* calls that timed out so far
    capLast,      \* history: the last call that got past the argument check
    \* ---- TaskTool and the threads that call it ----
    tasks,        \* TaskTool.tasks: the Vec<TaskItem> in the mutex
    task_next_id, \* TaskTool.next_id: the u32 in the mutex
    tasksHeldBy,  \* the thread that holds the tasks mutex, 0 for none
    nextIdHeldBy, \* the thread that holds the next_id mutex, 0 for none
    taskPc,       \* per thread: "idle" | "lock_tasks" | "lock_next_id" | "locked"
    taskArgs,     \* per thread: the arguments of its call
    taskRet,      \* per thread: what its last call returned
    taskCalls,    \* calls made so far
    created       \* history: the ids the create calls reported, in order

srvVars   == <<srvTools, srvPc, srvOut, srvLog, procReq, procRet, httpReq, httpResp,
               httpPending, httpCur>>
reactVars == <<reactTools, messages, initial, max_iter, iteration, reactPc, calls, callIdx,
               result, modelLog, toolLog, cache, tool_defs>>
cliVars   == <<client_kind, phase, transport, next_id, server_info, client_tools, refs,
               child_slot, kills, cpc, cur, last_ret, handshake, child, child_stdin,
               child_stdout, wire, cli_session_id, last_sid, hdr>>
sseVars   == <<sseResp, ssePc, sseBody, sseParsed>>
viewVars  == <<view, viewDefs, viewEmpty, viewCall>>
coreVars  == <<srvVars, reactVars, cliVars, sseVars>>
routerVars == <<event_rx, event_tx, fed, buffer, routerPc, summary_rx, drained,
                routerLog>>
capVars   == <<capCache, calls_since_capture, capNextId, capPc, capCur, capRet,
               request_rx, hostHeld, capture_result_rx, capCalls, capTimeouts, capLast>>
taskVars  == <<tasks, task_next_id, tasksHeldBy, nextIdHeldBy, taskPc, taskArgs,
               taskRet, taskCalls, created>>
extVars   == <<viewVars, routerVars, capVars, taskVars>>
notView   == <<coreVars, routerVars, capVars, taskVars>>
notRouter == <<coreVars, viewVars, capVars, taskVars>>
notCapture == <<coreVars, viewVars, routerVars, taskVars>>
notTask   == <<coreVars, viewVars, routerVars, capVars>>
vars      == <<coreVars, extVars>>

(***************************************************************************)
(* Option<T> and the JSON values the model distinguishes.                  *)
(***************************************************************************)
None == [t |-> "None"]
Some(v) == [t |-> "Some", v |-> v]

Absent == [j |-> "absent"]              \* the member is not in the object
JNull  == [j |-> "null"]                \* the member is the JSON null
JNum(n) == [j |-> "num", n |-> n]
JStr(s) == [j |-> "str", s |-> s]

\* serde's Deserialize for Option<serde_json::Value>: a missing member
\* (#[serde(default)] / Option) and an explicit null both give None.
OptionOfMember(m) == IF m = Absent \/ m = JNull THEN None ELSE Some(m)

(***************************************************************************)
(* AgentError (thiserror): Display prefixes the variant's text.            *)
(***************************************************************************)
AgentError(kind, msg) == [kind |-> kind, msg |-> msg]

ErrorPrefix(kind) ==
    CASE kind = "NetworkError"  -> "Network error: "
      [] kind = "ParseError"    -> "Parse error: "
      [] kind = "ConfigError"   -> "Configuration error: "
      [] kind = "InternalError" -> "Internal error: "

\* e.to_string(): text is modelled as a sequence of fragments.
to_string(e) == <<ErrorPrefix(e.kind)>> \o e.msg


(***************************************************************************)
(* Result<T, E>, ToolResult and the tool access layer (tool.rs).           *)
(***************************************************************************)
Ok(v)  == [ok |-> TRUE, v |-> v]
Err(e) == [ok |-> FALSE, e |-> e]

ToolResult_text(s) == [text |-> s, images |-> <<>>]
ToolResult_with_images(s, imgs) == [text |-> s, images |-> imgs]

\* The tool names the model draws from.  "tasks" and "blocked" have handlers
\* in the registry, "ghost" has none; a filtered view allows "tasks" and
\* "ghost" only.
RegisteredTools == <<"tasks", "blocked">>
AllowedTools    == <<"tasks", "ghost">>
ToolNames       == {"tasks", "blocked", "ghost"}

InSeq(x, s) == \E i \in 1..Len(s) : s[i] = x

\* A &dyn ToolAccess: a ToolRegistry (allowed = None) or the view that
\* ToolRegistry::filtered(allowed) returns.
ToolRegistry == [tools |-> RegisteredTools, allowed |-> None]
filtered(reg, allowed) == [tools |-> reg.tools, allowed |-> Some(allowed)]
ToolAccesses == {ToolRegistry, filtered(ToolRegistry, AllowedTools)}

\* What a handler's call(args) may return: the handlers are opaque
\* (TaskTool, remote proxies, ...), so their outcome is an input.
HandlerOutcomes ==
    { Ok(ToolResult_text(<<"No tasks.">>)),
      Ok(ToolResult_with_images(<<"Window: Chrome">>, <<"png">>)),
      Err(AgentError("ParseError", <<"Missing action argument">>)) }

\* The value of one ToolAccess::call: what it returned, and whether a
\* handler ran.
CallRecord(name, ret, handler) == [name |-> name, ret |-> ret, handler |-> handler]

\* Faulty variant of ToolRegistry::call: a handler's error is wrapped in a
\* new InternalError instead of being propagated by `?`.
ToolRegistry_call_wrapping(tools, name, h) ==
    IF InSeq(name, tools)
    THEN CallRecord(name,
                    IF h.ok THEN h ELSE Err(AgentError("InternalError", to_string(h.e))),
                    TRUE)
    ELSE CallRecord(name,
                    Err(AgentError("InternalError", <<"Unknown tool: ", name>>)),
                    FALSE)

\* ToolRegistry::call: first handler of that name, else "Unknown tool".
ToolRegistry_call(tools, name, h) ==
    IF InSeq(name, tools)
    THEN CallRecord(name, h, TRUE)
    ELSE CallRecord(name,
                    Err(AgentError("InternalError", <<"Unknown tool: ", name>>)),
                    FALSE)

\* Faulty variant of FilteredToolRegistry::call: the handler is looked up
\* before the allow-list is consulted, which then only guards unknown names.
FilteredToolRegistry_call_lookup_first(tools, allowed, name, h) ==
    IF InSeq(name, tools)
    THEN CallRecord(name, h, TRUE)
    ELSE IF ~InSeq(name, allowed)
    THEN CallRecord(name,
                    Err(AgentError("InternalError", <<"Tool not allowed: ", name>>)),
                    FALSE)
    ELSE CallRecord(name,
                    Err(AgentError("InternalError", <<"Unknown tool: ", name>>)),
                    FALSE)

\* FilteredToolRegistry::call: the allow-list is checked first.
FilteredToolRegistry_call(tools, allowed, name, h) ==
    IF ~InSeq(name, allowed)
    THEN CallRecord(name,
                    Err(AgentError("InternalError", <<"Tool not allowed: ", name>>)),
                    FALSE)
    ELSE ToolRegistry_call(tools, name, h)

\* Dynamic dispatch of ToolAccess::call.
ToolAccess_call(ta, name, h) ==
    IF ta.allowed = None
    THEN ToolRegistry_call(ta.tools, name, h)
    ELSE FilteredToolRegistry_call(ta.tools, ta.allowed.v, name, h)

\* ToolAccess::get_definitions: the names, in registration order (the
\* filtered view keeps the allowed ones).
get_definitions(ta) ==
    IF ta.allowed = None
    THEN ta.tools
    ELSE SelectSeq(ta.tools, LAMBDA n : InSeq(n, ta.allowed.v))

\* ToolRegistry::is_empty
ToolRegistry_is_empty(tools) == tools = <<>>

\* Faulty variant of FilteredToolRegistry::is_empty: the answer of the
\* registry behind the view, whatever the allow-list.
FilteredToolRegistry_is_empty_unfiltered(tools, allowed) == tools = <<>>

\* FilteredToolRegistry::is_empty: no registered handler is allowed.
FilteredToolRegistry_is_empty(tools, allowed) ==
    ~\E i \in 1..Len(tools) : InSeq(tools[i], allowed)

\* Dynamic dispatch of ToolAccess::is_empty.
ToolAccess_is_empty(ta) ==
    IF ta.allowed = None
    THEN ToolRegistry_is_empty(ta.tools)
    ELSE FilteredToolRegistry_is_empty(ta.tools, ta.allowed.v)

(***************************************************************************)
(* JSON-RPC wire types (mcp.rs).                                           *)
(***************************************************************************)
PARSE_ERROR      == -32700
INVALID_REQUEST  == -32600
METHOD_NOT_FOUND == -32601
INVALID_PARAMS   == -32602
INTERNAL_ERROR   == -32603

JsonRpcResponse_success(id, res) ==
    [jsonrpc |-> "2.0", id |-> id, result |-> Some(res), error |-> None]

\* Faulty variant of JsonRpcResponse::error: the result is set to null
\* next to the error.
JsonRpcResponse_error_with_result(id, code, message) ==
    [jsonrpc |-> "2.0", id |-> id, result |-> Some([j |-> "null_result"]),
     error |-> Some([code |-> code, message |-> message, data |-> None])]

JsonRpcResponse_error(id, code, message) ==
    [jsonrpc |-> "2.0", id |-> id, result |-> None,
     error |-> Some([code |-> code, message |-> message, data |-> None])]

\* Faulty variant of is_notification: only the notification methods the
\* protocol names are recognised, so an id-less request of another method
\* would be dispatched and answered.
is_notification_by_method(request) ==
    request.id = None /\ request.method = "notifications/initialized"

\* JsonRpcRequest::is_notification
is_notification(request) == request.id = None

(***************************************************************************)
(* The lines a peer can put on the server's reader.                        *)
(***************************************************************************)
RawLine(kind, jsonrpc, id, method, params) ==
    [kind |-> kind, jsonrpc |-> jsonrpc, id |-> id, method |-> method,
     params |-> params]

\* params members: an object with or without the "name" member
JParams(hasName, name) == [j |-> "obj", hasName |-> hasName, name |-> name]

IdMembers     == {Absent, JNull, JNum(1), JStr("a")}
PlainMethods  == {"initialize", "tools/list", "prompts/list"}
CallParams    == {Absent, JNull, JParams(FALSE, "")}
                     \cup {JParams(TRUE, n) : n \in ToolNames}

Lines ==
    {  RawLine("blank", Absent, Absent, "", Absent),     \* "" or only spaces
       RawLine("text", Absent, Absent, "", Absent),      \* not JSON at all
       RawLine("object", Absent, JNum(1), "tools/list", Absent),  \* no "jsonrpc"
       RawLine("object", JStr("2.0"), JNum(1), "", Absent),       \* no "method"
       RawLine("object", JStr("2.0"), Absent, "notifications/initialized", Absent) }
    \cup { RawLine("object", JStr("2.0"), i, m, Absent) :
               i \in IdMembers, m \in PlainMethods }
    \cup { RawLine("object", JStr("2.0"), i, "tools/call", p) :
               i \in IdMembers \ {JStr("a")}, p \in CallParams }

\* line.trim().is_empty()
is_blank(line) == line.kind = "blank"

\* serde_json::from_str::<JsonRpcRequest>(&line): jsonrpc and method are
\* required strings, id and params are Option<Value>.
from_str(line) ==
    IF line.kind = "object" /\ line.jsonrpc # Absent /\ line.method # ""
    THEN Ok([jsonrpc |-> line.jsonrpc.s,
             id      |-> OptionOfMember(line.id),
             method  |-> line.method,
             params  |-> OptionOfMember(line.params)])
    ELSE Err(<<"expected value">>)

\* serde_json::from_value::<ToolsCallParams>(params): name is required.
from_value_ToolsCallParams(p) ==
    IF p.j = "obj" /\ p.hasName
    THEN Ok([name |-> p.name])
    ELSE Err(<<"missing field name">>)

(***************************************************************************)
(* The stdio server (mcp_server.rs).  Every handler returns the response   *)
(* together with the ToolAccess::call it made (tcalls, of length 0 or 1).  *)
(***************************************************************************)
PROTOCOL_VERSION == "2024-11-05"

ToolContent_Text(text) == [type |-> "text", text |-> text]
ToolsCallResult(content, is_error) == [content |-> content, is_error |-> is_error]

Handled(resp, tcalls) == [resp |-> resp, tcalls |-> tcalls]

handle_initialize(id) ==
    Handled(JsonRpcResponse_success(id,
                [protocol_version |-> PROTOCOL_VERSION,
                 capabilities |-> [tools |-> Some([list_changed |-> Some(FALSE)])],
                 server_info |-> [name |-> "voice-agent"]]),
            <<>>)

handle_tools_list(id, ta) ==
    Handled(JsonRpcResponse_success(id, [tools |-> get_definitions(ta)]), <<>>)

\* Faulty variant of handle_tools_call: the failure text is returned but
\* is_error is left unset.
handle_tools_call_unflagged(id, params, ta, h) ==
    IF params = None
    THEN Handled(JsonRpcResponse_error(id, INVALID_PARAMS, <<"Missing params">>), <<>>)
    ELSE LET call_params == from_value_ToolsCallParams(params.v) IN
         IF ~call_params.ok
         THEN Handled(JsonRpcResponse_error(id, INVALID_PARAMS,
                          <<"Invalid params: ">> \o call_params.e), <<>>)
         ELSE LET c == ToolAccess_call(ta, call_params.v.name, h) IN
              Handled(JsonRpcResponse_success(id,
                          ToolsCallResult(
                              <<ToolContent_Text(IF c.ret.ok THEN c.ret.v.text
                                                 ELSE to_string(c.ret.e))>>,
                              None)),
                      <<c>>)

\* Faulty variant of handle_tools_call: params that do not decode are not
\* refused; the tool access layer is asked for the tool with the empty name.
handle_tools_call_unvalidated(id, params, ta, h) ==
    IF params = None
    THEN Handled(JsonRpcResponse_error(id, INVALID_PARAMS, <<"Missing params">>), <<>>)
    ELSE LET call_params == from_value_ToolsCallParams(params.v)
             c == ToolAccess_call(ta, IF call_params.ok THEN call_params.v.name ELSE "", h)
         IN  IF c.ret.ok
             THEN Handled(JsonRpcResponse_success(id,
                              ToolsCallResult(<<ToolContent_Text(c.ret.v.text)>>, None)),
                          <<c>>)
             ELSE Handled(JsonRpcResponse_success(id,
                              ToolsCallResult(<<ToolContent_Text(to_string(c.ret.e))>>,
                                              Some(TRUE))),
                          <<c>>)

\* Faulty variant of handle_tools_call: a failed tool call is turned into a
\* JSON-RPC Internal error.
handle_tools_call_rpc_error(id, params, ta, h) ==
    IF params = None
    THEN Handled(JsonRpcResponse_error(id, INVALID_PARAMS, <<"Missing params">>), <<>>)
    ELSE LET call_params == from_value_ToolsCallParams(params.v) IN
         IF ~call_params.ok
         THEN Handled(JsonRpcResponse_error(id, INVALID_PARAMS,
                          <<"Invalid params: ">> \o call_params.e), <<>>)
         ELSE LET c == ToolAccess_call(ta, call_params.v.name, h) IN
              IF c.ret.ok
              THEN Handled(JsonRpcResponse_success(id,
                               ToolsCallResult(<<ToolContent_Text(c.ret.v.text)>>, None)),
                           <<c>>)
              ELSE Handled(JsonRpcResponse_error(id, INTERNAL_ERROR, to_string(c.ret.e)),
                           <<c>>)

handle_tools_call(id, params, ta, h) ==
    IF params = None
    THEN Handled(JsonRpcResponse_error(id, INVALID_PARAMS, <<"Missing params">>), <<>>)
    ELSE LET call_params == from_value_ToolsCallParams(params.v) IN
         IF ~call_params.ok
         THEN Handled(JsonRpcResponse_error(id, INVALID_PARAMS,
                          <<"Invalid params: ">> \o call_params.e), <<>>)
         ELSE LET c == ToolAccess_call(ta, call_params.v.name, h) IN
              IF c.ret.ok
              THEN Handled(JsonRpcResponse_success(id,
                               ToolsCallResult(<<ToolContent_Text(c.ret.v.text)>>, None)),
                           <<c>>)
              ELSE Handled(JsonRpcResponse_success(id,
                               ToolsCallResult(<<ToolContent_Text(to_string(c.ret.e))>>,
                                               Some(TRUE))),
                           <<c>>)

handle_request(id, method, params, ta, h) ==
    CASE method = "initialize" -> handle_initialize(id)
      [] method = "tools/list" -> handle_tools_list(id, ta)
      [] method = "tools/call" -> handle_tools_call(id, params, ta, h)
      [] OTHER -> Handled(JsonRpcResponse_error(id, METHOD_NOT_FOUND,
                              <<"Unknown method: ", method>>), <<>>)

\* Faulty variant of the id handed to handle_request: always null, as in
\* the parse-error reply.
id_or_null_dropped(request) == JNull

\* request.id.clone().unwrap_or(serde_json::Value::Null)
id_or_null(request) == IF request.id = None THEN JNull ELSE request.id.v

\* McpServer::process: None for a notification, else Some(response).
process(request, ta, h) ==
    IF is_notification(request)
    THEN [ret |-> None, tcalls |-> <<>>]
    ELSE LET r == handle_request(id_or_null(request), request.method,
                                 request.params, ta, h)
         IN [ret |-> Some(r.resp), tcalls |-> r.tcalls]

\* The notification test inside the run loop (mcp_server.rs:73).
run_with_skips(request) == is_notification(request)

\* Faulty variant of the loop body: a line that does not parse is skipped
\* like a blank line.
serve_drops_malformed(line, ta, h) ==
    IF is_blank(line)
    THEN [replies |-> <<>>, tcalls |-> <<>>]
    ELSE LET parsed == from_str(line) IN
         IF ~parsed.ok
         THEN [replies |-> <<>>, tcalls |-> <<>>]
         ELSE IF run_with_skips(parsed.v)
         THEN [replies |-> <<>>, tcalls |-> <<>>]
         ELSE LET r == handle_request(id_or_null(parsed.v), parsed.v.method,
                                      parsed.v.params, ta, h)
              IN [replies |-> <<r.resp>>, tcalls |-> r.tcalls]

\* One iteration of the loop of run_with on `line`: the reply lines it
\* writes (each is flushed) and the tool access calls it makes.
serve(line, ta, h) ==
    IF is_blank(line)
    THEN [replies |-> <<>>, tcalls |-> <<>>]
    ELSE LET parsed == from_str(line) IN
         IF ~parsed.ok
         THEN [replies |-> <<JsonRpcResponse_error(JNull, PARSE_ERROR,
                                 <<"Parse error: ">> \o parsed.e)>>,
               tcalls |-> <<>>]
         ELSE IF run_with_skips(parsed.v)
         THEN [replies |-> <<>>, tcalls |-> <<>>]
         ELSE LET r == handle_request(id_or_null(parsed.v), parsed.v.method,
                                      parsed.v.params, ta, h)
              IN [replies |-> <<r.resp>>, tcalls |-> r.tcalls]

(***************************************************************************)
(* Text on the HTTP transport: a body is a sequence of lines, a line is a  *)
(* prefix followed by raw text or by the JSON text of an object.           *)
(***************************************************************************)
Raw(str)   == [kind |-> "raw", s |-> str]
Json(obj)  == [kind |-> "json", obj |-> obj]
TextLine(prefix, rest) == [prefix |-> prefix, rest |-> rest]

\* Serialize / Deserialize for JsonRpcError: data is skipped when None, and
\* a missing or null data reads as None.
serialize_JsonRpcError(e) ==
    [code |-> e.code, message |-> e.message,
     data |-> IF e.data = None THEN Absent ELSE e.data.v]

deserialize_JsonRpcError(obj) ==
    [code |-> obj.code, message |-> obj.message, data |-> OptionOfMember(obj.data)]

\* serde_json::to_string(&JsonRpcResponse): result and error are skipped
\* when None.
serialize_JsonRpcResponse(resp) ==
    Json([jsonrpc |-> JStr(resp.jsonrpc),
          id      |-> resp.id,
          result  |-> IF resp.result = None THEN Absent ELSE resp.result.v,
          error   |-> IF resp.error = None THEN Absent
                      ELSE serialize_JsonRpcError(resp.error.v)])

\* serde_json::from_str::<JsonRpcResponse>(text): jsonrpc and id are
\* required, result and error are Option (missing or null gives None).
from_str_JsonRpcResponse(text) ==
    IF text.kind = "json" /\ text.obj.jsonrpc # Absent /\ text.obj.id # Absent
    THEN Ok([jsonrpc |-> text.obj.jsonrpc.s,
             id      |-> text.obj.id,
             result  |-> OptionOfMember(text.obj.result),
             error   |-> IF OptionOfMember(text.obj.error) = None THEN None
                         ELSE Some(deserialize_JsonRpcError(text.obj.error))])
    ELSE Err(<<"expected value">>)

\* format_sse_event: "event: message\ndata: {json}\n\n", as body.lines()
\* sees it.
format_sse_event(response) ==
    << TextLine("event: ", Raw("message")),
       TextLine("data: ", serialize_JsonRpcResponse(response)),
       TextLine("", Raw("")) >>

\* extract_sse_data: the rest of every line that starts with "data: " or
\* "data:", joined with "\n".
IsDataLine(l) == l.prefix = "data: " \/ l.prefix = "data:"

extract_sse_data(body) ==
    LET parts == SelectSeq(body, IsDataLine) IN
    IF parts = <<>> THEN Raw("")
    ELSE IF Len(parts) = 1 THEN parts[1].rest
    ELSE [kind |-> "joined", parts |-> [i \in 1..Len(parts) |-> parts[i].rest]]

\* body.trim() seen as one text: a body of one line without prefix is that
\* line's text; anything else is not a JSON document.
trim(body) ==
    IF Len(body) = 1 /\ body[1].prefix = "" THEN body[1].rest
    ELSE [kind |-> "lines", lines |-> body]

\* parse_sse_response: plain JSON first, else the data of the SSE body.
parse_sse_response(body) ==
    IF from_str_JsonRpcResponse(trim(body)).ok
    THEN from_str_JsonRpcResponse(trim(body))
    ELSE from_str_JsonRpcResponse(extract_sse_data(body))

(***************************************************************************)
(* The HTTP server (mcp_server_http.rs).                                   *)
(***************************************************************************)
Header(name, value) == [name |-> name, value |-> value]
content_type_sse == Header("Content-Type", "text/event-stream")
no_cache_header  == Header("Cache-Control", "no-cache")
session_id_header(id) == Header("Mcp-Session-Id", id)
content_type_plain == Header("Content-Type", "text/plain; charset=UTF-8")

\* The value of generate_session_id() for the server at hand.
ServerSessionId == "mcp-1-a"

HttpRequest(method, readable, body) ==
    [method |-> method, readable |-> readable, body |-> body]
HttpResponse(status, headers, body) ==
    [status |-> status, headers |-> headers, body |-> body]

\* The HTTP requests a peer may send: a POST of any body, a POST whose body
\* cannot be read, and GETs (without a body, with a body that cannot be
\* read, with a body that would be a tools/call).
HttpRequests ==
    {HttpRequest("POST", TRUE, l) : l \in Lines}
        \cup {HttpRequest("POST", FALSE, RawLine("text", Absent, Absent, "", Absent)),
              HttpRequest("GET", TRUE, RawLine("blank", Absent, Absent, "", Absent)),
              HttpRequest("GET", FALSE, RawLine("text", Absent, Absent, "", Absent)),
              HttpRequest("GET", TRUE, RawLine("object", JStr("2.0"), JNum(1), "tools/call",
                                               JParams(TRUE, "tasks")))}

Dispatched(resp, tcalls) == [resp |-> resp, tcalls |-> tcalls]

\* Faulty variant of dispatch_http_request: the decoded request goes to the
\* method dispatch without the notification test of process().
dispatch_http_request_answers_all(ta, session_id, request, h) ==
    IF request.method # "POST"
    THEN Dispatched(HttpResponse(405, {content_type_plain, Header("Allow", "POST")},
                                 <<TextLine("", Raw("Method Not Allowed"))>>), <<>>)
    ELSE IF ~request.readable
    THEN Dispatched(HttpResponse(400, {content_type_plain},
                                 <<TextLine("", Raw("Bad Request"))>>), <<>>)
    ELSE LET parsed == from_str(request.body) IN
         IF ~parsed.ok
         THEN Dispatched(HttpResponse(200, {content_type_sse, session_id_header(session_id)},
                             format_sse_event(JsonRpcResponse_error(JNull, PARSE_ERROR,
                                                  <<"Parse error: ">> \o parsed.e))),
                         <<>>)
         ELSE LET r == handle_request(id_or_null(parsed.v), parsed.v.method,
                                      parsed.v.params, ta, h) IN
              Dispatched(HttpResponse(200, {content_type_sse, no_cache_header,
                                            session_id_header(session_id)},
                                      format_sse_event(r.resp)),
                         r.tcalls)

\* Faulty variant of dispatch_http_request: a body that does not parse is
\* refused at the HTTP level.
dispatch_http_request_refuses_unparsable(ta, session_id, request, h) ==
    IF request.method # "POST"
    THEN Dispatched(HttpResponse(405, {content_type_plain, Header("Allow", "POST")},
                                 <<TextLine("", Raw("Method Not Allowed"))>>), <<>>)
    ELSE IF ~request.readable \/ ~from_str(request.body).ok
    THEN Dispatched(HttpResponse(400, {content_type_plain},
                                 <<TextLine("", Raw("Bad Request"))>>), <<>>)
    ELSE LET p == process(from_str(request.body).v, ta, h) IN
         IF p.ret # None
         THEN Dispatched(HttpResponse(200, {content_type_sse, no_cache_header,
                                            session_id_header(session_id)},
                                      format_sse_event(p.ret.v)),
                         p.tcalls)
         ELSE Dispatched(HttpResponse(202, {session_id_header(session_id)}, <<>>),
                         p.tcalls)

\* Faulty variant of dispatch_http_request: the 202 for a notification
\* comes without the session header.
dispatch_http_request_anonymous_202(ta, session_id, request, h) ==
    IF request.method # "POST"
    THEN Dispatched(HttpResponse(405, {content_type_plain, Header("Allow", "POST")},
                                 <<TextLine("", Raw("Method Not Allowed"))>>), <<>>)
    ELSE IF ~request.readable
    THEN Dispatched(HttpResponse(400, {content_type_plain},
                                 <<TextLine("", Raw("Bad Request"))>>), <<>>)
    ELSE LET parsed == from_str(request.body) IN
         IF ~parsed.ok
         THEN Dispatched(HttpResponse(200, {content_type_sse, session_id_header(session_id)},
                             format_sse_event(JsonRpcResponse_error(JNull, PARSE_ERROR,
                                                  <<"Parse error: ">> \o parsed.e))),
                         <<>>)
         ELSE LET p == process(parsed.v, ta, h) IN
              IF p.ret # None
              THEN Dispatched(HttpResponse(200, {content_type_sse, no_cache_header,
                                                 session_id_header(session_id)},
                                           format_sse_event(p.ret.v)),
                              p.tcalls)
              ELSE Dispatched(HttpResponse(202, {}, <<>>), p.tcalls)

\* Faulty variant of dispatch_http_request: the body is read before the
\* method is looked at.
dispatch_http_request_reads_first(ta, session_id, request, h) ==
    IF ~request.readable
    THEN Dispatched(HttpResponse(400, {content_type_plain},
                                 <<TextLine("", Raw("Bad Request"))>>), <<>>)
    ELSE IF request.method # "POST"
    THEN Dispatched(HttpResponse(405, {content_type_plain, Header("Allow", "POST")},
                                 <<TextLine("", Raw("Method Not Allowed"))>>), <<>>)
    ELSE LET parsed == from_str(request.body) IN
         IF ~parsed.ok
         THEN Dispatched(HttpResponse(200, {content_type_sse, session_id_header(session_id)},
                             format_sse_event(JsonRpcResponse_error(JNull, PARSE_ERROR,
                                                  <<"Parse error: ">> \o parsed.e))),
                         <<>>)
         ELSE LET p == process(parsed.v, ta, h) IN
              IF p.ret # None
              THEN Dispatched(HttpResponse(200, {content_type_sse, no_cache_header,
                                                 session_id_header(session_id)},
                                           format_sse_event(p.ret.v)),
                              p.tcalls)
              ELSE Dispatched(HttpResponse(202, {session_id_header(session_id)}, <<>>),
                              p.tcalls)

\* dispatch_http_request: the HTTP response and the tool access calls made.
dispatch_http_request(ta, session_id, request, h) ==
    IF request.method # "POST"
    THEN Dispatched(HttpResponse(405, {content_type_plain, Header("Allow", "POST")},
                                 <<TextLine("", Raw("Method Not Allowed"))>>), <<>>)
    ELSE IF ~request.readable
    THEN Dispatched(HttpResponse(400, {content_type_plain},
                                 <<TextLine("", Raw("Bad Request"))>>), <<>>)
    ELSE LET parsed == from_str(request.body) IN
         IF ~parsed.ok
         THEN Dispatched(HttpResponse(200, {content_type_sse, session_id_header(session_id)},
                             format_sse_event(JsonRpcResponse_error(JNull, PARSE_ERROR,
                                                  <<"Parse error: ">> \o parsed.e))),
                         <<>>)
         ELSE LET p == process(parsed.v, ta, h) IN
              IF p.ret # None
              THEN Dispatched(HttpResponse(200, {content_type_sse, no_cache_header,
                                                 session_id_header(session_id)},
                                           format_sse_event(p.ret.v)),
                              p.tcalls)
              ELSE Dispatched(HttpResponse(202, {session_id_header(session_id)}, <<>>),
                              p.tcalls)

\* ---- bounds ----
MaxLines == 2      \* lines one run of the server reads
MaxPending == 2    \* connections that wait for the HTTP server at one time

LogEntry(line, replies, tcalls, io) ==
    [line |-> line, replies |-> replies, tcalls |-> tcalls, io |-> io]

\* The requests a caller can hand to process() directly.
Requests == {from_str(l).v : l \in {x \in Lines : from_str(x).ok}}

\* ---- the components at rest ----
NumCallers == 2    \* threads that share the connected client
MaxId      == 4    \* request ids handed out in one run

Threads == 0..NumCallers
Callers == 1..NumCallers

NoRequest == [id |-> 0, method |-> ""]
NoReturn  == [t |-> 0, req |-> 0, method |-> ""]

ClientIdle ==
    /\ client_kind = "none" /\ phase = "idle" /\ transport = None /\ next_id = 1
    /\ server_info = None /\ client_tools = <<>>
    /\ refs = {} /\ child_slot = "None" /\ kills = 0
    /\ cpc = [t \in Threads |-> "idle"]
    /\ cur = [t \in Threads |-> NoRequest]
    /\ last_ret = NoReturn /\ handshake = <<>>
    /\ child = "none" /\ child_stdin = <<>> /\ child_stdout = <<>> /\ wire = <<>>
    /\ cli_session_id = None /\ last_sid = None /\ hdr = [t \in Threads |-> None]

ViewIdle == view = ToolRegistry /\ viewDefs = None /\ viewEmpty = None /\ viewCall = None

RouterIdle ==
    /\ event_rx = <<>> /\ event_tx = FALSE /\ fed = 0 /\ buffer = <<>>
    /\ routerPc = "ended" /\ summary_rx = <<>> /\ drained = <<>> /\ routerLog = <<>>

NoCall == [kind |-> "", id |-> ""]
NoCallReturn == [kind |-> "", sent |-> None, reply |-> None, ret |-> None]
NoLast == [kind |-> "", streak |-> -1, accepted |-> FALSE]

CaptureIdle ==
    /\ capCache = None /\ calls_since_capture = 0 /\ capNextId = 1
    /\ capPc = "idle" /\ capCur = NoCall /\ capRet = NoCallReturn
    /\ request_rx = <<>> /\ hostHeld = <<>> /\ capture_result_rx = <<>>
    /\ capCalls = 0 /\ capTimeouts = 0 /\ capLast = NoLast

NumTaskThreads == 2   \* threads that call the one TaskTool
TaskThreads == 1..NumTaskThreads
NoTaskArgs == [action |-> None, task_id |-> None, status |-> None]

TaskIdle ==
    /\ tasks = <<>> /\ task_next_id = 1
    /\ tasksHeldBy = 0 /\ nextIdHeldBy = 0
    /\ taskPc = [th \in TaskThreads |-> "idle"]
    /\ taskArgs = [th \in TaskThreads |-> NoTaskArgs]
    /\ taskRet = [th \in TaskThreads |-> None]
    /\ taskCalls = 0 /\ created = <<>>

ExtIdle == ViewIdle /\ RouterIdle /\ CaptureIdle /\ TaskIdle

SseIdle == sseResp = None /\ ssePc = "idle" /\ sseBody = <<>> /\ sseParsed = None

\* ToolHandler::description of a registered handler.
description(name) == <<"Description of ", name>>

\* The handlers' state behind dynamic_description after construction:
\* none holds a cached capture.
NoCache == [n \in {RegisteredTools[i] : i \in DOMAIN RegisteredTools} |-> None]

\* CaptureScreenTool::dynamic_description: with a cached capture, the
\* static description followed by the metadata of the cache.  (The cache
\* expires after more than CACHE_MAX_CALLS = 5 calls without a capture, more
\* than one run makes here.)
dynamic_description(name, c) ==
    IF c[name] # None
    THEN Some(description(name) \o <<". [Cached image: ">> \o c[name].v \o <<".]">>)
    ELSE None

\* CaptureScreenTool::call, lines 233-239: a call that returned a capture
\* fills the cache with its metadata; a crop of the cached image needs the
\* cache and leaves it.
cache_after(c, name, h) ==
    IF h.ok /\ h.v.images # <<>> THEN [c EXCEPT ![name] = Some(h.v.text)] ELSE c

\* ToolDefinition {name, description, parameters}; the schema is fixed.
ToolDefinition(name, c) ==
    [name |-> name,
     description |-> IF dynamic_description(name, c) # None
                     THEN dynamic_description(name, c).v
                     ELSE description(name)]

\* get_definitions with the description member of each definition, for the
\* handlers' state `c`.
get_tool_definitions(ta, c) ==
    [i \in DOMAIN get_definitions(ta) |-> ToolDefinition(get_definitions(ta)[i], c)]

ReactIdle ==
    /\ reactTools = ToolRegistry
    /\ messages = <<>> /\ initial = <<>> /\ max_iter = 0 /\ iteration = 0
    /\ reactPc = "idle" /\ calls = <<>> /\ callIdx = 0 /\ result = None
    /\ modelLog = <<>> /\ toolLog = <<>>
    /\ cache = NoCache /\ tool_defs = <<>>

InitServer ==
    /\ srvTools \in ToolAccesses
    /\ srvPc = "reading"
    /\ srvOut = <<>>
    /\ srvLog = <<>>
    /\ procReq = None
    /\ procRet = None
    /\ httpReq = None
    /\ httpResp = None
    /\ httpPending = 0
    /\ httpCur = None
    /\ ReactIdle
    /\ ClientIdle
    /\ SseIdle
    /\ ExtIdle

\* Faulty variant of written: the reply lines are put in front of what the
\* writer already holds.
written_in_front(out, replies) == replies \o out

\* writeln!(writer, ..) and writer.flush(): the writer's content after the
\* reply lines of one iteration.
written(out, replies) == out \o replies

\* The loop takes a line, handles it and writes (and flushes) its reply.
run_with_line ==
    /\ srvPc = "reading" /\ procReq = None
    /\ httpReq = None /\ httpPending = 0 /\ httpCur = None
    /\ Len(srvLog) < MaxLines
    /\ \E line \in Lines, h \in HandlerOutcomes :
         LET s == serve(line, srvTools, h) IN
         /\ srvOut' = written(srvOut, s.replies)
         /\ srvLog' = Append(srvLog, LogEntry(line, s.replies, s.tcalls, "ok"))
    /\ UNCHANGED <<srvTools, srvPc, procReq, procRet, httpReq, httpResp,
                   httpPending, httpCur,
                   reactVars, cliVars, sseVars, extVars>>

\* writeln!/flush fails: the `?` leaves run_with with the io error; the
\* line was handled but no reply line reached the writer.
run_with_write_error ==
    /\ srvPc = "reading" /\ procReq = None
    /\ httpReq = None /\ httpPending = 0 /\ httpCur = None
    /\ Len(srvLog) < MaxLines
    /\ \E line \in Lines, h \in HandlerOutcomes :
         LET s == serve(line, srvTools, h) IN
         /\ s.replies # <<>>
         /\ srvLog' = Append(srvLog, LogEntry(line, <<>>, s.tcalls, "write_failed"))
    /\ srvPc' = "returned_err"
    /\ UNCHANGED <<srvTools, srvOut, procReq, procRet, httpReq, httpResp,
                   httpPending, httpCur,
                   reactVars, cliVars, sseVars, extVars>>

\* `let line = line?` fails (the reader reports an io error).
run_with_read_error ==
    /\ srvPc = "reading" /\ procReq = None
    /\ httpReq = None /\ httpPending = 0 /\ httpCur = None
    /\ srvPc' = "returned_err"
    /\ UNCHANGED <<srvTools, srvOut, srvLog, procReq, procRet, httpReq, httpResp,
                   httpPending, httpCur,
                   reactVars, cliVars, sseVars, extVars>>

\* The reader is at end of input: run_with returns Ok(()).
run_with_eof ==
    /\ srvPc = "reading" /\ procReq = None
    /\ httpReq = None /\ httpPending = 0 /\ httpCur = None
    /\ srvPc' = "returned_ok"
    /\ UNCHANGED <<srvTools, srvOut, srvLog, procReq, procRet, httpReq, httpResp,
                   httpPending, httpCur,
                   reactVars, cliVars, sseVars, extVars>>

\* A transport that decodes requests itself (the HTTP server) calls
\* process() instead of running the line loop.
process_call ==
    /\ srvPc = "reading" /\ srvLog = <<>>
    /\ httpReq = None /\ httpPending = 0 /\ httpCur = None
    /\ \E request \in Requests, h \in HandlerOutcomes :
         /\ procReq' = Some(request)
         /\ procRet' = process(request, srvTools, h)
    /\ UNCHANGED <<srvTools, srvPc, srvOut, srvLog, httpReq, httpResp,
                   httpPending, httpCur,
                   reactVars, cliVars, sseVars, extVars>>

\* A peer connects and sends a request: tiny_http accepts it in the
\* background and queues it for incoming_requests().
http_connect ==
    /\ srvPc = "reading" /\ srvLog = <<>> /\ procReq = None
    /\ httpPending < MaxPending
    /\ httpPending' = httpPending + 1
    /\ UNCHANGED <<srvTools, srvPc, srvOut, srvLog, procReq, procRet, httpReq, httpResp,
                   httpCur, reactVars, cliVars, sseVars, extVars>>

\* The loop of run / run_background takes the next request from
\* incoming_requests() and calls dispatch_http_request with it, on the
\* thread of the loop; `h` is what the tool handler will return if the
\* request gets that far.
handle_http_request ==
    /\ httpCur = None
    /\ httpPending > 0
    /\ httpPending' = httpPending - 1
    /\ \E request \in HttpRequests, h \in HandlerOutcomes :
         httpCur' = Some([request |-> request, h |-> h])
    /\ UNCHANGED <<srvTools, srvPc, srvOut, srvLog, procReq, procRet, httpReq, httpResp,
                   reactVars, cliVars, sseVars, extVars>>

\* dispatch_http_request responds and returns to the loop.
http_respond ==
    /\ httpCur # None
    /\ httpReq' = httpCur
    /\ httpResp' = Some(dispatch_http_request(srvTools, ServerSessionId,
                                              httpCur.v.request, httpCur.v.h))
    /\ httpCur' = None
    /\ UNCHANGED <<srvTools, srvPc, srvOut, srvLog, procReq, procRet, httpPending,
                   reactVars, cliVars, sseVars, extVars>>

NextServer ==
    \/ run_with_line
    \/ run_with_write_error
    \/ run_with_read_error
    \/ run_with_eof
    \/ process_call
    \/ http_connect
    \/ handle_http_request
    \/ http_respond

SpecServer == InitServer /\ [][NextServer]_vars

(***************************************************************************)
(* The SSE helpers of mcp.rs applied to one JsonRpcResponse: the response  *)
(* is encoded as an SSE event or as bare JSON, and the text is decoded     *)
(* with parse_sse_response.                                                *)
(***************************************************************************)
\* The JSON values a result or the data of an error may be.
SseValues ==
    { JNull, JStr("ok"), JNum(0),
      [j |-> "obj", content |-> <<ToolContent_Text(<<"a">>)>>, is_error |-> Absent] }

\* The responses: built by success, built by error, and error objects that
\* carry data.
SseResponses ==
    {JsonRpcResponse_success(id, v) : id \in {JNull, JNum(1), JStr("a")}, v \in SseValues}
        \cup {JsonRpcResponse_error(id, code, <<"m">>) :
                  id \in {JNull, JNum(1), JStr("a")},
                  code \in {PARSE_ERROR, METHOD_NOT_FOUND, INTERNAL_ERROR}}
        \cup {[jsonrpc |-> "2.0", id |-> JNum(1), result |-> None,
               error |-> Some([code |-> INVALID_PARAMS, message |-> <<"m">>,
                               data |-> Some(v)])] : v \in SseValues}

InitSse ==
    /\ sseResp \in {Some(r) : r \in SseResponses}
    /\ ssePc = "made"
    /\ sseBody = <<>>
    /\ sseParsed = None
    /\ srvTools = ToolRegistry /\ srvPc = "idle" /\ srvOut = <<>> /\ srvLog = <<>>
    /\ procReq = None /\ procRet = None
    /\ httpReq = None /\ httpResp = None /\ httpPending = 0 /\ httpCur = None
    /\ ReactIdle
    /\ ClientIdle
    /\ ExtIdle

\* format_sse_event(&response)
sse_format ==
    /\ ssePc = "made"
    /\ sseBody' = format_sse_event(sseResp.v)
    /\ ssePc' = "event"
    /\ UNCHANGED <<sseResp, sseParsed, srvVars, reactVars, cliVars, extVars>>

\* serde_json::to_string(&response): the bare JSON encoding
sse_to_string ==
    /\ ssePc = "made"
    /\ sseBody' = <<TextLine("", serialize_JsonRpcResponse(sseResp.v))>>
    /\ ssePc' = "json"
    /\ UNCHANGED <<sseResp, sseParsed, srvVars, reactVars, cliVars, extVars>>

\* parse_sse_response(&body)
sse_parse ==
    /\ ssePc \in {"event", "json"}
    /\ sseParsed' = Some(parse_sse_response(sseBody))
    /\ ssePc' = "parsed"
    /\ UNCHANGED <<sseResp, sseBody, srvVars, reactVars, cliVars, extVars>>

NextSse ==
    \/ sse_format
    \/ sse_to_string
    \/ sse_parse

SpecSse == InitSse /\ [][NextSse]_vars

(***************************************************************************)
(* The ReAct loop (react.rs).  Token usage accounting does not influence   *)
(* the control flow and is left out.                                       *)
(***************************************************************************)
DEFAULT_MAX_ITERATIONS == 10

\* ---- bounds ----
MaxIter  == 3      \* largest max_iterations passed explicitly
MaxCalls == 2      \* most tool calls in one model response
MaxMsgs  == 6      \* transcript length up to which the model keeps asking for tools

\* ChatMessage and its constructors (llm.rs)
ChatMessage(role, content, images, tool_calls, tool_call_id, tool_name) ==
    [role |-> role, content |-> content, images |-> images,
     tool_calls |-> tool_calls, tool_call_id |-> tool_call_id,
     tool_name |-> tool_name]

ChatMessage_user(content) ==
    ChatMessage("User", content, <<>>, None, None, None)

ChatMessage_assistant_tool_calls(cs) ==
    ChatMessage("Assistant", <<>>, <<>>, Some(cs), None, None)

ChatMessage_tool_result(call_id, name, content) ==
    ChatMessage("Tool", content, <<>>, None, Some(call_id), Some(name))

ChatMessage_tool_result_with_images(call_id, name, content, images) ==
    ChatMessage("Tool", content, images, None, Some(call_id), Some(name))

\* ToolCallInfo {id, name, arguments}: the arguments go to the handler
\* untouched, and the handler's outcome is an input of the model.
ToolCallInfo(id, name) == [id |-> id, name |-> name]
ToolCallInfos ==
    { ToolCallInfo("call_1", "tasks"),
      ToolCallInfo("call_2", "ghost"),
      ToolCallInfo("call_3", "blocked") }

RECURSIVE SeqsUpTo(_, _)
SeqsUpTo(S, n) ==
    IF n = 0 THEN {<<>>}
    ELSE LET shorter == SeqsUpTo(S, n - 1) IN
         shorter \cup {Append(q, x) : q \in {r \in shorter : Len(r) = n - 1}, x \in S}

\* LlmResponse, and the failure of chat_with_tools
LlmResponse_Text(content, reasoning) ==
    [kind |-> "Text", content |-> content, reasoning |-> reasoning, calls |-> <<>>]
LlmResponse_ToolCalls(cs) ==
    [kind |-> "ToolCalls", content |-> <<>>, reasoning |-> None, calls |-> cs]
LlmFailure ==
    [kind |-> "Err", content |-> <<"timed out">>, reasoning |-> None, calls |-> <<>>]

\* What chat_with_tools may return when the transcript has `n` messages.
ModelResponses(n) ==
    { LlmResponse_Text(<<"Hello!">>, r) : r \in {None, Some(<<"thought">>)} }
    \cup { LlmFailure }
    \cup { LlmResponse_ToolCalls(cs) :
              cs \in {q \in SeqsUpTo(ToolCallInfos, MaxCalls) : n + 1 + Len(q) <= MaxMsgs} }

InitialTranscripts == { <<>>, <<ChatMessage_user(<<"Hi">>)>> }

\* max_iterations.unwrap_or(DEFAULT_MAX_ITERATIONS)
unwrap_or_default(max_iterations) ==
    IF max_iterations = None THEN DEFAULT_MAX_ITERATIONS ELSE max_iterations.v

\* Faulty variant of loop_continues: an inclusive range, one iteration more.
loop_continues_inclusive(it, n) == it <= n

\* `for iteration in 0..max_iter`: whether the body runs for `it`.
loop_continues(it, n) == it < n

\* Faulty variant of exhausted_result: the loop's end is reported as an
\* empty answer instead of an error.
exhausted_result_partial(n) == Ok([content |-> <<>>, reasoning |-> None])

\* The Err that ends run after the loop.
exhausted_result(n) ==
    Err(AgentError("InternalError",
                   <<"ReAct loop exceeded maximum iterations (", ToString(n), ")">>))

\* Faulty variant of execute_tool_call: the error's text alone, without
\* the "Error executing tool" frame.
execute_tool_call_bare(c) ==
    IF c.ret.ok THEN c.ret.v ELSE ToolResult_text(to_string(c.ret.e))

\* execute_tool_call: the error of the access layer becomes the text of
\* an ordinary ToolResult.
execute_tool_call(c) ==
    IF c.ret.ok
    THEN c.ret.v
    ELSE ToolResult_text(<<"Error executing tool '", c.name, "': ">> \o to_string(c.ret.e))

\* The message run pushes for the result of `call`.
result_message(call, res) ==
    IF res.images = <<>>
    THEN ChatMessage_tool_result(call.id, call.name, res.text)
    ELSE ChatMessage_tool_result_with_images(call.id, call.name, res.text, res.images)

\* Faulty variant of next_call: the calls are taken from the back.
next_call_reversed(cs, done) == cs[Len(cs) - done]

\* The call the inner `for call in &calls` takes after `done` calls.
next_call(cs, done) == cs[done + 1]

\* Faulty variant of transcript_after_text: the answer is pushed as an
\* assistant message.
transcript_after_text_pushed(msgs, content) ==
    Append(msgs, ChatMessage("Assistant", content, <<>>, None, None, None))

\* The transcript after the LlmResponse::Text arm: run pushes nothing.
transcript_after_text(msgs, content) == msgs

InitReact ==
    /\ reactTools \in ToolAccesses
    /\ messages \in InitialTranscripts
    /\ initial = messages
    /\ \E max_iterations \in {None} \cup {Some(n) : n \in 0..MaxIter} :
          max_iter = unwrap_or_default(max_iterations)
    /\ iteration = 0
    /\ reactPc = "CallModel"
    /\ calls = <<>>
    /\ callIdx = 0
    /\ result = None
    /\ modelLog = <<>>
    /\ toolLog = <<>>
    /\ cache = NoCache
    /\ tool_defs = get_tool_definitions(reactTools, cache)
    /\ srvTools = ToolRegistry /\ srvPc = "idle" /\ srvOut = <<>> /\ srvLog = <<>>
    /\ procReq = None /\ procRet = None
    /\ httpReq = None /\ httpResp = None /\ httpPending = 0 /\ httpCur = None
    /\ ClientIdle
    /\ SseIdle
    /\ ExtIdle

\* Faulty variant of transcript_after_failure: the messages of the run are
\* taken back when the model fails.
transcript_after_failure_rolled_back(msgs, init) == init

\* The transcript after the `?` on chat_with_tools returned: run leaves it
\* as it is.
transcript_after_failure(msgs, init) == msgs

\* Faulty variant of model_failure: the failure of the model is reported
\* with the kind of an internal error.
model_failure_internal(response) == Err(AgentError("InternalError", response.content))

\* .map_err(|e| AgentError::NetworkError(e.to_string()))? on chat_with_tools
model_failure(response) == Err(AgentError("NetworkError", response.content))

\* One model invocation and the arm of `match response` it leads to.
call_model ==
    /\ reactPc = "CallModel"
    /\ loop_continues(iteration, max_iter)
    /\ \E response \in ModelResponses(Len(messages)) :
         /\ modelLog' = Append(modelLog,
                [seen |-> Len(messages), iteration |-> iteration, resp |-> response,
                 defs |-> tool_defs])
         /\ CASE response.kind = "Err" ->
                   /\ result' = Some(model_failure(response))
                   /\ reactPc' = "Error"
                   /\ messages' = transcript_after_failure(messages, initial)
                   /\ UNCHANGED <<calls, callIdx, iteration>>
              [] response.kind = "Text" ->
                   /\ result' = Some(Ok([content |-> response.content,
                                         reasoning |-> response.reasoning]))
                   /\ reactPc' = "Done"
                   /\ messages' = transcript_after_text(messages, response.content)
                   /\ UNCHANGED <<calls, callIdx, iteration>>
              [] response.kind = "ToolCalls" ->
                   /\ messages' = Append(messages,
                                         ChatMessage_assistant_tool_calls(response.calls))
                   /\ calls' = response.calls
                   /\ callIdx' = 0
                   /\ IF response.calls = <<>>
                      THEN reactPc' = "CallModel" /\ iteration' = iteration + 1
                      ELSE reactPc' = "ExecuteTools" /\ iteration' = iteration
                   /\ UNCHANGED result
    /\ UNCHANGED <<reactTools, initial, max_iter, toolLog, cache, tool_defs,
                   srvVars, cliVars, sseVars, extVars>>

\* One pass of the inner loop: execute the next call, push its result; after
\* the last call of the turn the outer loop moves on.
execute_tool ==
    /\ reactPc = "ExecuteTools"
    /\ callIdx < Len(calls)
    /\ LET call == next_call(calls, callIdx) IN
       \E h \in HandlerOutcomes :
         LET c   == ToolAccess_call(reactTools, call.name, h)
             res == execute_tool_call(c)
         IN /\ messages' = Append(messages, result_message(call, res))
            /\ toolLog' = Append(toolLog,
                   [call |-> call, ret |-> c.ret, handler |-> c.handler,
                    outcome |-> IF c.handler THEN Some(h) ELSE None,
                    before |-> Len(messages), turn |-> Len(modelLog)])
            /\ cache' = IF c.handler THEN cache_after(cache, call.name, h) ELSE cache
    /\ callIdx' = callIdx + 1
    /\ IF callIdx + 1 = Len(calls)
       THEN reactPc' = "CallModel" /\ iteration' = iteration + 1
       ELSE reactPc' = "ExecuteTools" /\ iteration' = iteration
    /\ UNCHANGED <<reactTools, initial, max_iter, calls, result, modelLog, tool_defs,
                   srvVars, cliVars, sseVars, extVars>>

\* The outer loop is over: run returns the exhaustion error.
loop_exhausted ==
    /\ reactPc = "CallModel"
    /\ ~loop_continues(iteration, max_iter)
    /\ result' = Some(exhausted_result(max_iter))
    /\ reactPc' = "Failed"
    /\ UNCHANGED <<reactTools, messages, initial, max_iter, iteration, calls,
                   callIdx, modelLog, toolLog, cache, tool_defs,
                   srvVars, cliVars, sseVars, extVars>>

NextReact ==
    \/ call_model
    \/ execute_tool
    \/ loop_exhausted

SpecReact == InitReact /\ [][NextReact]_vars

(***************************************************************************)
(* The MCP clients (mcp_client.rs, mcp_client_http.rs).  Thread 0 is the   *)
(* thread that runs connect; the holders 1..NumCallers are the remote tool *)
(* proxies, which share the Arc and call call_tool.  The stdio client's    *)
(* subprocess answers the lines it reads in order, one reply per request,  *)
(* and may exit at any time; the HTTP client's peer answers each POST.     *)
(***************************************************************************)
ClientKinds == {"stdio", "http"}

\* JsonRpcRequest::new / JsonRpcRequest::notification, as sent
RequestLine(id, method, t) == [id |-> Some(id), method |-> method, from |-> t]
NotificationLine(method, t) == [id |-> None, method |-> method, from |-> t]

\* A JSON value seen through the types it can be decoded into.
AsJson(shape, v) == [shape |-> shape, v |-> v]
Unshaped == AsJson("other", [other |-> TRUE])

\* serde_json::from_value::<T>(value)
from_value(shape, j) ==
    IF j.shape = shape THEN Ok(j.v) ELSE Err(<<"missing field">>)

\* The tools/call results a server may send.
CallResults ==
    { ToolsCallResult(<<>>, None),
      ToolsCallResult(<<ToolContent_Text(<<"a">>)>>, None),
      ToolsCallResult(<<ToolContent_Text(<<"a">>)>>, Some(FALSE)),
      ToolsCallResult(<<ToolContent_Text(<<"a">>), ToolContent_Text(<<"b">>)>>, None),
      ToolsCallResult(<<ToolContent_Text(<<"a">>), ToolContent_Text(<<"b">>)>>, Some(TRUE)) }

ResultBodies(method) ==
    CASE method = "initialize" ->
             {AsJson("InitializeResult", [server_info |-> "server"]), Unshaped}
      [] method = "tools/list" ->
             {AsJson("ToolsListResult", [tools |-> <<"tasks">>]), Unshaped}
      [] OTHER ->
             {AsJson("ToolsCallResult", r) : r \in CallResults} \cup {Unshaped}

\* What the peer may answer: a response with a result, with an error
\* object, with neither, or text that is no JSON-RPC response.
ReplyKinds == {"result", "error", "empty", "garbage"}
ReplyLine(req, k, body) == [id |-> req.id.v, kind |-> k, result |-> body]

Replies(req) ==
    {ReplyLine(req, "result", b) : b \in ResultBodies(req.method)}
        \cup {ReplyLine(req, k, Unshaped) : k \in ReplyKinds \ {"result"}}

\* The HTTP exchange may also fail below JSON-RPC: no connection, a status
\* that ureq reports as an error, or a body that cannot be read.
HttpReplies(req) ==
    Replies(req)
        \cup {ReplyLine(req, k, Unshaped) : k \in {"transport", "status", "unreadable"}}

\* The Mcp-Session-Id header of a response: none, or the server's value.
SessionHeaders == {None, Some("s1")}

\* A response came back (so it may carry headers): everything but a
\* failure to connect.
GotResponse(o) == o.kind # "transport"

\* send_request gets to line 75 with the response: send_string returned Ok.
ResponseKept(o) == o.kind \notin {"transport", "status"}

\* McpClient::send_request, lines 120-133: what it returns for the line read.
reply_outcome(request, line) ==
    CASE line.kind = "garbage" ->
             Err(AgentError("ParseError", <<"Invalid JSON-RPC response from MCP server">>))
      [] line.kind = "error" -> Err(AgentError("InternalError", <<"MCP error">>))
      [] line.kind = "empty" ->
             Err(AgentError("InternalError", <<"Empty result from MCP server">>))
      [] OTHER -> Ok(line.result)

\* Faulty variant of McpHttpClient::send_request: an error object in the
\* reply is reported like a failure of the transport.
http_reply_outcome_all_network(request, o) ==
    CASE o.kind = "transport" -> Err(AgentError("NetworkError", <<"HTTP transport error">>))
      [] o.kind = "status" -> Err(AgentError("NetworkError", <<"HTTP status from MCP server">>))
      [] o.kind = "unreadable" ->
             Err(AgentError("NetworkError", <<"Failed to read MCP server response">>))
      [] o.kind = "garbage" -> Err(AgentError("ParseError", <<"Failed to parse SSE response">>))
      [] o.kind = "error" -> Err(AgentError("NetworkError", <<"MCP error">>))
      [] o.kind = "empty" ->
             Err(AgentError("InternalError", <<"Empty result from MCP server">>))
      [] OTHER -> Ok(o.result)

\* McpHttpClient::send_request, lines 62-104.
http_reply_outcome(request, o) ==
    CASE o.kind = "transport" -> Err(AgentError("NetworkError", <<"HTTP transport error">>))
      [] o.kind = "status" -> Err(AgentError("NetworkError", <<"HTTP status from MCP server">>))
      [] o.kind = "unreadable" ->
             Err(AgentError("NetworkError", <<"Failed to read MCP server response">>))
      [] o.kind = "garbage" -> Err(AgentError("ParseError", <<"Failed to parse SSE response">>))
      [] o.kind = "error" -> Err(AgentError("InternalError", <<"MCP error">>))
      [] o.kind = "empty" ->
             Err(AgentError("InternalError", <<"Empty result from MCP server">>))
      [] OTHER -> Ok(o.result)

\* texts.join("\n") over texts that are sequences of fragments
RECURSIVE join(_)
join(texts) ==
    IF texts = <<>> THEN <<>>
    ELSE IF Len(texts) = 1 THEN texts[1]
    ELSE texts[1] \o <<"\n">> \o join(Tail(texts))

\* Faulty variant of McpHttpClient::call_tool: is_error is not looked at.
McpHttpClient_call_tool_unflagged(sent) ==
    IF ~sent.ok THEN sent
    ELSE LET call_result == from_value("ToolsCallResult", sent.v) IN
         IF ~call_result.ok
         THEN Err(AgentError("ParseError", <<"Invalid tools/call result: ">> \o call_result.e))
         ELSE Ok(join([i \in 1..Len(call_result.v.content) |->
                          call_result.v.content[i].text]))

\* McpHttpClient::call_tool on what send_request returned
McpHttpClient_call_tool(sent) ==
    IF ~sent.ok THEN sent
    ELSE LET call_result == from_value("ToolsCallResult", sent.v) IN
         IF ~call_result.ok
         THEN Err(AgentError("ParseError", <<"Invalid tools/call result: ">> \o call_result.e))
         ELSE LET text == join([i \in 1..Len(call_result.v.content) |->
                                   call_result.v.content[i].text])
              IN IF call_result.v.is_error = Some(TRUE)
                 THEN Err(AgentError("InternalError", text))
                 ELSE Ok(text)

\* McpClient::call_tool on what send_request returned
McpClient_call_tool(sent) ==
    IF ~sent.ok THEN sent
    ELSE LET call_result == from_value("ToolsCallResult", sent.v) IN
         IF ~call_result.ok
         THEN Err(AgentError("ParseError", <<"Invalid tools/call result: ">> \o call_result.e))
         ELSE LET text == join([i \in 1..Len(call_result.v.content) |->
                                   call_result.v.content[i].text])
              IN IF call_result.v.is_error = Some(TRUE)
                 THEN Err(AgentError("InternalError", text))
                 ELSE Ok(text)

\* do_initialize / do_discover_tools: the `?` on send_request, then the
\* decoding of the result.
decode_result(shape, what, sent) ==
    IF ~sent.ok THEN sent
    ELSE LET r == from_value(shape, sent.v) IN
         IF r.ok THEN r ELSE Err(AgentError("ParseError", <<what>> \o r.e))

\* What the caller of send_request makes of its return value.
caller_value(k, method, sent) ==
    CASE method = "initialize" ->
             decode_result("InitializeResult", "Invalid initialize result: ", sent)
      [] method = "tools/list" ->
             decode_result("ToolsListResult", "Invalid tools/list result: ", sent)
      [] OTHER ->
             IF k = "stdio" THEN McpClient_call_tool(sent) ELSE McpHttpClient_call_tool(sent)

\* A guard that covers the write only.
transport_released_after_write(t) == None

\* The MutexGuard taken at mcp_client.rs:97 lives to the end of
\* send_request: after the write the transport is still locked by `t`.
transport_after_write(t) == Some(t)

\* Faulty variant of connect: a failed step is logged and the handshake
\* goes on.
phase_after_ignoring_failure(ph, r) ==
    IF ph = "initialize" THEN "notify"
    ELSE IF ph = "notify" THEN "tools/list"
    ELSE IF ph = "tools/list" THEN "connected"
    ELSE ph

\* Where connect goes when the step of thread 0 returned `r`: the `?` of
\* send_request(..)?, send_notification(..)?, do_initialize()? and
\* do_discover_tools()?.
phase_after(ph, r) ==
    IF ~r.ok THEN "failed"
    ELSE IF ph = "initialize" THEN "notify"
    ELSE IF ph = "notify" THEN "tools/list"
    ELSE IF ph = "tools/list" THEN "connected"
    ELSE ph

\* Faulty variant of Drop: the child is taken out of the slot and forgotten.
Drop_drop_forgets(slot, c) == [slot |-> "None", child |-> c, kills |-> 0]

\* Drop for McpClient: take the child out of the slot, kill it, wait for it.
Drop_drop(slot, c) ==
    IF slot = "Some"
    THEN [slot |-> "None", child |-> "reaped", kills |-> 1]
    ELSE [slot |-> slot, child |-> c, kills |-> 0]

\* The holders of the Arc become `rs`; when none is left the client is
\* dropped (only McpClient has a Drop).
Release(rs) ==
    /\ refs' = rs
    /\ IF rs = {} /\ client_kind = "stdio"
       THEN LET d == Drop_drop(child_slot, child) IN
            /\ child_slot' = d.slot
            /\ child' = d.child
            /\ kills' = kills + d.kills
       ELSE UNCHANGED <<child_slot, child, kills>>

\* connect after a step: on failure the only Arc goes out of scope; on
\* success of the last step the Arc is returned and tool_handlers() hands a
\* clone to every proxy.
AfterConnectStep(ph) ==
    IF ph = "failed" THEN Release({})
    ELSE IF ph = "connected"
    THEN refs' = Threads /\ UNCHANGED <<child_slot, child, kills>>
    ELSE UNCHANGED <<refs, child_slot, child, kills>>

\* send_request returns `sent` to thread t, whose caller goes on with it.
Return(t, reply, sent) ==
    LET value == caller_value(client_kind, cur[t].method, sent) IN
    /\ last_ret' = [t |-> t, req |-> cur[t].id, method |-> cur[t].method,
                    reply |-> reply, sent |-> sent, value |-> value]
    /\ cpc' = [cpc EXCEPT ![t] = "idle"]
    /\ IF t = 0
       THEN /\ handshake' = Append(handshake, [step |-> cur[t].method, ok |-> value.ok])
            /\ phase' = phase_after(phase, value)
            /\ server_info' = IF phase = "initialize" /\ value.ok /\ client_kind = "stdio"
                              THEN Some(value.v.server_info) ELSE server_info
            /\ client_tools' = IF phase = "tools/list" /\ value.ok
                               THEN value.v.tools ELSE client_tools
            /\ AfterConnectStep(phase')
       ELSE UNCHANGED <<handshake, phase, server_info, client_tools, refs,
                        child_slot, child, kills>>

\* send_notification returns to do_initialize.
NotifyReturn(t, ok) ==
    /\ handshake' = Append(handshake, [step |-> "notifications/initialized", ok |-> ok])
    /\ phase' = phase_after(phase, [ok |-> ok])
    /\ cpc' = [cpc EXCEPT ![t] = "idle"]
    /\ AfterConnectStep(phase')
    /\ UNCHANGED <<server_info, client_tools, last_ret>>

\* The state after the Arc is built (mcp_client.rs:69-78,
\* mcp_client_http.rs:29-34).
InitClient ==
    /\ client_kind \in ClientKinds
    /\ phase = "initialize" /\ transport = None /\ next_id = 1
    /\ server_info = None /\ client_tools = <<>>
    /\ refs = {0} /\ kills = 0
    /\ child_slot = IF client_kind = "stdio" THEN "Some" ELSE "None"
    /\ cpc = [t \in Threads |-> "idle"]
    /\ cur = [t \in Threads |-> NoRequest]
    /\ last_ret = NoReturn /\ handshake = <<>>
    /\ child = IF client_kind = "stdio" THEN "running" ELSE "none"
    /\ child_stdin = <<>> /\ child_stdout = <<>> /\ wire = <<>>
    /\ cli_session_id = None /\ last_sid = None /\ hdr = [t \in Threads |-> None]
    /\ srvTools = ToolRegistry /\ srvPc = "idle" /\ srvOut = <<>> /\ srvLog = <<>>
    /\ procReq = None /\ procRet = None
    /\ httpReq = None /\ httpResp = None /\ httpPending = 0 /\ httpCur = None
    /\ ReactIdle
    /\ SseIdle
    /\ ExtIdle

\* Thread t may start a request: thread 0 inside connect, a proxy once
\* connect has returned and while it holds the Arc.
MayRequest(t) ==
    /\ cpc[t] = "idle"
    /\ t \in refs
    /\ IF t = 0 THEN phase \in {"initialize", "tools/list"} ELSE phase = "connected"
    /\ next_id <= MaxId

RequestOf(t) == [id |-> next_id, method |-> IF t = 0 THEN phase ELSE "tools/call"]

\* McpClient::send_request, lines 92-95: take an id and serialize the request.
send_request_begin(t) ==
    /\ client_kind = "stdio"
    /\ MayRequest(t)
    /\ cur' = [cur EXCEPT ![t] = RequestOf(t)]
    /\ next_id' = next_id + 1
    /\ cpc' = [cpc EXCEPT ![t] = "req_lock"]
    /\ UNCHANGED <<client_kind, cli_session_id, last_sid, hdr, phase, transport, server_info, client_tools,
                   refs, child_slot, kills, last_ret, handshake, child,
                   child_stdin, child_stdout, wire, srvVars, reactVars, sseVars, extVars>>

\* McpClient::send_request, line 97: self.transport.lock()
send_request_lock(t) ==
    /\ cpc[t] = "req_lock"
    /\ transport = None
    /\ transport' = Some(t)
    /\ cpc' = [cpc EXCEPT ![t] = "req_write"]
    /\ UNCHANGED <<client_kind, cli_session_id, last_sid, hdr, phase, next_id, server_info, client_tools,
                   refs, child_slot, kills, cur, last_ret, handshake, child,
                   child_stdin, child_stdout, wire, srvVars, reactVars, sseVars, extVars>>

\* McpClient::send_request, lines 100-105: writeln! and flush.  Writing to a
\* child that has exited fails, and the `?` returns the error (the guard is
\* dropped).
send_request_write(t) ==
    /\ cpc[t] = "req_write"
    /\ IF child = "running"
       THEN /\ child_stdin' = Append(child_stdin, RequestLine(cur[t].id, cur[t].method, t))
            /\ wire' = Append(wire, RequestLine(cur[t].id, cur[t].method, t))
            /\ transport' = transport_after_write(t)
            /\ cpc' = [cpc EXCEPT ![t] = "req_read"]
            /\ UNCHANGED <<phase, server_info, client_tools, refs, child_slot, kills,
                           child, last_ret, handshake>>
       ELSE /\ Return(t, None,
                      Err(AgentError("InternalError", <<"Write to MCP server failed">>)))
            /\ transport' = None
            /\ UNCHANGED <<child_stdin, wire>>
    /\ UNCHANGED <<client_kind, cli_session_id, last_sid, hdr, next_id, cur, child_stdout, srvVars,
                   reactVars, sseVars, extVars>>

\* McpClient::send_request, lines 108-133: read_line blocks until the child
\* has written a line or closed its stdout; the line is decoded, the guard
\* is dropped on return.  For thread 0 the handshake goes on or fails.
send_request_read(t) ==
    /\ cpc[t] = "req_read"
    /\ \/ /\ child_stdout # <<>>
          /\ Return(t, Some(Head(child_stdout)), reply_outcome(cur[t], Head(child_stdout)))
          /\ child_stdout' = Tail(child_stdout)
       \/ /\ child_stdout = <<>> /\ child # "running"
          /\ Return(t, None,
                    Err(AgentError("InternalError", <<"MCP server closed stdout unexpectedly">>)))
          /\ UNCHANGED child_stdout
    /\ transport' = IF transport = Some(t) THEN None ELSE transport
    /\ UNCHANGED <<client_kind, cli_session_id, last_sid, hdr, next_id, cur, child_stdin, wire, srvVars,
                   reactVars, sseVars, extVars>>

\* McpClient::send_notification, line 146: only do_initialize sends one.
send_notification_lock(t) ==
    /\ client_kind = "stdio"
    /\ t = 0 /\ phase = "notify"
    /\ cpc[t] = "idle"
    /\ transport = None
    /\ transport' = Some(t)
    /\ cpc' = [cpc EXCEPT ![t] = "ntf_write"]
    /\ UNCHANGED <<client_kind, cli_session_id, last_sid, hdr, phase, next_id, server_info, client_tools,
                   refs, child_slot, kills, cur, last_ret, handshake, child,
                   child_stdin, child_stdout, wire, srvVars, reactVars, sseVars, extVars>>

\* McpClient::send_notification, lines 147-154: write, flush, return (the
\* guard is dropped).
send_notification_write(t) ==
    /\ cpc[t] = "ntf_write"
    /\ IF child = "running"
       THEN /\ child_stdin' = Append(child_stdin,
                                     NotificationLine("notifications/initialized", t))
            /\ wire' = Append(wire, NotificationLine("notifications/initialized", t))
            /\ NotifyReturn(t, TRUE)
       ELSE /\ NotifyReturn(t, FALSE)
            /\ UNCHANGED <<child_stdin, wire>>
    /\ transport' = None
    /\ UNCHANGED <<client_kind, cli_session_id, last_sid, hdr, next_id, cur, child_stdout, srvVars,
                   reactVars, sseVars, extVars>>

\* McpHttpClient::send_request, lines 48-60: take an id, build the POST
\* with the session id the client holds, if any.
http_send_request_begin(t) ==
    /\ client_kind = "http"
    /\ MayRequest(t)
    /\ cur' = [cur EXCEPT ![t] = RequestOf(t)]
    /\ next_id' = next_id + 1
    /\ cpc' = [cpc EXCEPT ![t] = "http_post"]
    /\ hdr' = [hdr EXCEPT ![t] = cli_session_id]
    /\ UNCHANGED <<client_kind, cli_session_id, last_sid, phase, transport, server_info, client_tools,
                   refs, child_slot, kills, last_ret, handshake, child,
                   child_stdin, child_stdout, wire, srvVars, reactVars, sseVars, extVars>>

\* McpHttpClient::send_request, line 62: send_string sends the body...
http_send_request_post(t) ==
    /\ cpc[t] = "http_post"
    /\ wire' = Append(wire, RequestLine(cur[t].id, cur[t].method, t))
    /\ cpc' = [cpc EXCEPT ![t] = "http_wait"]
    /\ UNCHANGED <<client_kind, cli_session_id, last_sid, hdr, phase, transport, next_id, server_info,
                   client_tools, refs, child_slot, kills, cur, last_ret,
                   handshake, child, child_stdin, child_stdout, srvVars,
                   reactVars, sseVars, extVars>>

\* ... and returns with the response or an error; lines 62-104 keep the
\* session id of a response that send_string returned and decode the body.
http_send_request_response(t) ==
    /\ cpc[t] = "http_wait"
    /\ \E o \in HttpReplies(RequestLine(cur[t].id, cur[t].method, t)),
          sid \in SessionHeaders :
         /\ ~GotResponse(o) => sid = None
         /\ Return(t, Some(o), http_reply_outcome(cur[t], o))
         /\ cli_session_id' = IF ResponseKept(o) /\ sid # None THEN sid ELSE cli_session_id
         /\ last_sid' = IF sid # None THEN sid ELSE last_sid
    /\ hdr' = [hdr EXCEPT ![t] = None]
    /\ UNCHANGED <<client_kind, transport, next_id, cur, child_stdin,
                   child_stdout, wire, srvVars, reactVars, sseVars, extVars>>

\* McpHttpClient::send_notification, lines 113-125: the POST is sent.
http_send_notification_post(t) ==
    /\ client_kind = "http"
    /\ t = 0 /\ phase = "notify"
    /\ cpc[t] = "idle"
    /\ wire' = Append(wire, NotificationLine("notifications/initialized", t))
    /\ cpc' = [cpc EXCEPT ![t] = "http_ntf_wait"]
    /\ hdr' = [hdr EXCEPT ![t] = cli_session_id]
    /\ UNCHANGED <<client_kind, cli_session_id, last_sid, phase, transport, next_id, server_info,
                   client_tools, refs, child_slot, kills, cur, last_ret,
                   handshake, child, child_stdin, child_stdout, srvVars,
                   reactVars, sseVars, extVars>>

\* McpHttpClient::send_notification, lines 125-134: any success status is
\* Ok(()), an error status or a transport error is the NetworkError.  The
\* response is dropped unread, whatever headers it has.
http_send_notification_response(t) ==
    /\ cpc[t] = "http_ntf_wait"
    /\ \E ok \in BOOLEAN, sid \in SessionHeaders :
         /\ NotifyReturn(t, ok)
         /\ last_sid' = IF sid # None THEN sid ELSE last_sid
    /\ hdr' = [hdr EXCEPT ![t] = None]
    /\ UNCHANGED <<client_kind, cli_session_id, transport, next_id, cur, child_stdin,
                   child_stdout, wire, srvVars, reactVars, sseVars, extVars>>

\* A holder lets go of its Arc (a proxy is dropped with its registry, the
\* application drops the client).  Nobody is inside a call of a client
\* whose last Arc goes away.
drop_ref(t) ==
    /\ phase = "connected"
    /\ t \in refs
    /\ cpc[t] = "idle"
    /\ Release(refs \ {t})
    /\ UNCHANGED <<client_kind, cli_session_id, last_sid, hdr, phase, transport, next_id, server_info,
                   client_tools, cpc, cur, last_ret, handshake, child_stdin,
                   child_stdout, wire, srvVars, reactVars, sseVars, extVars>>

\* The child takes the next line: a request is answered with one line, a
\* notification with none.
child_serve ==
    /\ child = "running"
    /\ child_stdin # <<>>
    /\ child_stdin' = Tail(child_stdin)
    /\ IF Head(child_stdin).id = None
       THEN UNCHANGED child_stdout
       ELSE \E r \in Replies(Head(child_stdin)) :
               child_stdout' = Append(child_stdout, r)
    /\ UNCHANGED <<client_kind, cli_session_id, last_sid, hdr, phase, transport, next_id, server_info,
                   client_tools, refs, child_slot, kills, cpc, cur, last_ret,
                   handshake, child, wire, srvVars, reactVars, sseVars, extVars>>

\* The child exits (or crashes): its ends of the pipes are closed.
child_exit ==
    /\ child = "running"
    /\ child' = "exited"
    /\ UNCHANGED <<client_kind, cli_session_id, last_sid, hdr, phase, transport, next_id, server_info,
                   client_tools, refs, child_slot, kills, cpc, cur, last_ret,
                   handshake, child_stdin, child_stdout, wire, srvVars,
                   reactVars, sseVars, extVars>>

NextClient ==
    \/ \E t \in Threads : send_request_begin(t)
    \/ \E t \in Threads : send_request_lock(t)
    \/ \E t \in Threads : send_request_write(t)
    \/ \E t \in Threads : send_request_read(t)
    \/ \E t \in Threads : send_notification_lock(t)
    \/ \E t \in Threads : send_notification_write(t)
    \/ \E t \in Threads : http_send_request_begin(t)
    \/ \E t \in Threads : http_send_request_post(t)
    \/ \E t \in Threads : http_send_request_response(t)
    \/ \E t \in Threads : http_send_notification_post(t)
    \/ \E t \in Threads : http_send_notification_response(t)
    \/ \E t \in Threads : drop_ref(t)
    \/ child_serve
    \/ child_exit

SpecClient == InitClient /\ [][NextClient]_vars

(***************************************************************************)
(* A filtered view of a registry (tool.rs): any handlers registered in any *)
(* order, any allow-list, and the three operations of ToolAccess applied   *)
(* to the view in any order.                                               *)
(***************************************************************************)
MaxTools == 2      \* handlers registered, and names on the allow-list

\* The server, the ReAct loop, the clients and the SSE helpers are not in use.
CoreIdle ==
    /\ srvTools = ToolRegistry /\ srvPc = "idle" /\ srvOut = <<>> /\ srvLog = <<>>
    /\ procReq = None /\ procRet = None
    /\ httpReq = None /\ httpResp = None /\ httpPending = 0 /\ httpCur = None
    /\ ReactIdle
    /\ ClientIdle
    /\ SseIdle

Registries == { [tools |-> t, allowed |-> None] : t \in SeqsUpTo(ToolNames, MaxTools) }

\* ToolRegistry::filtered(&allowed) of some registry
Views == { filtered(reg, a) : reg \in Registries, a \in SeqsUpTo(ToolNames, MaxTools) }

InitView ==
    /\ view \in Views
    /\ viewDefs = None
    /\ viewEmpty = None
    /\ viewCall = None
    /\ CoreIdle
    /\ RouterIdle
    /\ CaptureIdle
    /\ TaskIdle

\* view.get_definitions()
view_get_definitions ==
    /\ viewDefs' = Some(get_definitions(view))
    /\ UNCHANGED <<view, viewEmpty, viewCall, notView>>

\* view.is_empty()
view_is_empty ==
    /\ viewEmpty' = Some(ToolAccess_is_empty(view))
    /\ UNCHANGED <<view, viewDefs, viewCall, notView>>

\* view.call(name, args); `h` is what the handler returns if it is reached.
view_call ==
    /\ \E name \in ToolNames, h \in HandlerOutcomes :
         viewCall' = Some(ToolAccess_call(view, name, h))
    /\ UNCHANGED <<view, viewDefs, viewEmpty, notView>>

NextView ==
    \/ view_get_definitions
    \/ view_is_empty
    \/ view_call

SpecView == InitView /\ [][NextView]_vars

(***************************************************************************)
(* The EventRouter (event_router.rs): callers feed events into a channel,  *)
(* the router thread debounces them and sends summaries to a second        *)
(* channel, which drain_summaries empties.  The debounce interval is not   *)
(* measured: recv_timeout times out when the window passes with the event  *)
(* channel empty.                                                          *)
(***************************************************************************)
MaxEvents == 3     \* events fed to one router

HookEventData(ev, tool_name, file_path) ==
    [source |-> "hook", event |-> ev, tool_name |-> tool_name, file_path |-> file_path]
SessionEventData(event_type) ==
    [source |-> "session", event_type |-> event_type, tool_uses |-> <<>>,
     text_content |-> None]
UserSpeechData(text) == [source |-> "user", text |-> text]

WatcherEvents ==
    { HookEventData("PostToolUse", Some("Edit"), Some("a.rs")),
      HookEventData("PostToolUse", Some("Glob"), None),
      HookEventData("Stop", None, None),
      SessionEventData("progress"),
      UserSpeechData(<<"What are you doing?">>) }

NOISE_TYPES == {"progress", "file-history-snapshot", "queue-operation", "system",
                "result", "summary"}
INTERESTING_TOOLS == {"Write", "Edit", "MultiEdit", "Bash", "Read"}

EventSummary(text, priority) == [text |-> text, priority |-> priority]

\* The hook events of a batch that are counted: not "Stop".
ToolHooks(evs) ==
    SelectSeq(evs, LAMBDA e : e.source = "hook" /\ e.event # "Stop")

\* increment_tool_count over the batch: the tool names in the order they
\* were first seen.
RECURSIVE ToolsSeen(_)
ToolsSeen(evs) ==
    IF evs = <<>> THEN <<>>
    ELSE LET before == ToolsSeen(SubSeq(evs, 1, Len(evs) - 1))
             e == evs[Len(evs)]
         IN IF e.tool_name # None /\ ~InSeq(e.tool_name.v, before)
            THEN Append(before, e.tool_name.v) ELSE before

ToolCount(evs, name) ==
    Cardinality({i \in 1..Len(evs) : evs[i].tool_name = Some(name)})

\* The distinct basenames of the file paths, in the order first seen.
RECURSIVE FilesSeen(_)
FilesSeen(evs) ==
    IF evs = <<>> THEN <<>>
    ELSE LET before == FilesSeen(SubSeq(evs, 1, Len(evs) - 1))
             e == evs[Len(evs)]
         IN IF e.file_path # None /\ ~InSeq(e.file_path.v, before)
            THEN Append(before, e.file_path.v) ELSE before

\* sorted.sort_by(|a, b| b.1.cmp(&a.1)): stable, larger counts first.
RECURSIVE SortByCount(_, _)
SortByCount(names, evs) ==
    IF names = <<>> THEN <<>>
    ELSE LET top == CHOOSE i \in 1..Len(names) :
                      /\ \A j \in 1..Len(names) :
                            ToolCount(evs, names[j]) <= ToolCount(evs, names[i])
                      /\ \A j \in 1..(i - 1) :
                            ToolCount(evs, names[j]) < ToolCount(evs, names[i])
         IN <<names[top]>> \o
            SortByCount(SubSeq(names, 1, top - 1) \o SubSeq(names, top + 1, Len(names)), evs)

\* parts.join(sep) over texts that are sequences of fragments
RECURSIVE JoinWith(_, _)
JoinWith(parts, sep) ==
    IF parts = <<>> THEN <<>>
    ELSE IF Len(parts) = 1 THEN parts[1]
    ELSE parts[1] \o <<sep>> \o JoinWith(Tail(parts), sep)

\* summarize(&events): None when the batch has nothing to report.  Session
\* entries of a noise type and user speech are skipped; the batches here
\* stay below the lengths at which the file list and the text are cut.
summarize(evs) ==
    LET hooks == ToolHooks(evs)
        interesting == SelectSeq(ToolsSeen(hooks), LAMBDA n : n \in INTERESTING_TOOLS)
        sorted == SortByCount(interesting, hooks)
        files == FilesSeen(hooks)
        stop_count == Cardinality({i \in 1..Len(evs) :
                          evs[i].source = "hook" /\ evs[i].event = "Stop"})
        tools_part == IF interesting = <<>> THEN <<>>
                      ELSE << <<"Tools used: ">> \o
                              JoinWith([i \in 1..Len(sorted) |->
                                           <<sorted[i], " x", ToString(ToolCount(hooks, sorted[i]))>>],
                                       ", ") >>
        files_part == IF files = <<>> THEN <<>>
                      ELSE << <<"Files: ">> \o
                              JoinWith([i \in 1..Len(files) |-> <<files[i]>>], ", ") >>
        stop_part == IF stop_count > 0
                     THEN << <<"Claude Code finished responding">> >> ELSE <<>>
        parts == tools_part \o files_part \o stop_part
    IN IF parts = <<>> THEN None
       ELSE Some(<<"[Claude Code Update] ">> \o JoinWith(parts, ". "))

\* summary_tx.send(..) with the result ignored: the summary is on the
\* channel if the receiver is alive.
send_summary(chan, alive, summary) == IF alive THEN Append(chan, summary) ELSE chan

\* Faulty variant of handle_event: user speech first flushes what is
\* buffered.
handle_event_flushing(ev, buf, chan, alive) ==
    IF ev.source = "user"
    THEN [buffer |-> <<>>,
          summaries |-> send_summary(
              IF buf # <<>> /\ summarize(buf) # None
              THEN send_summary(chan, alive, EventSummary(summarize(buf).v, "Normal"))
              ELSE chan,
              alive, EventSummary(ev.text, "High"))]
    ELSE [buffer |-> Append(buf, ev), summaries |-> chan]

\* handle_event: user speech is sent at once with High priority, any other
\* event is pushed on the buffer.
handle_event(ev, buf, chan, alive) ==
    IF ev.source = "user"
    THEN [buffer |-> buf,
          summaries |-> send_summary(chan, alive, EventSummary(ev.text, "High"))]
    ELSE [buffer |-> Append(buf, ev), summaries |-> chan]

\* flush_buffer: the buffer is drained; its summary, if there is one, is
\* sent with Normal priority.
flush_buffer(buf, chan, alive) ==
    IF buf = <<>> THEN chan
    ELSE IF summarize(buf) # None
    THEN send_summary(chan, alive, EventSummary(summarize(buf).v, "Normal"))
    ELSE chan

InitRouter ==
    /\ event_rx = <<>>
    /\ event_tx = TRUE
    /\ fed = 0
    /\ buffer = <<>>
    /\ routerPc = "running"
    /\ summary_rx = <<>>
    /\ drained = <<>>
    /\ routerLog = <<>>
    /\ CoreIdle
    /\ ViewIdle
    /\ CaptureIdle
    /\ TaskIdle

\* EventRouter::feed / feed_user_speech
feed ==
    /\ event_tx
    /\ fed < MaxEvents
    /\ \E ev \in WatcherEvents : event_rx' = Append(event_rx, ev)
    /\ fed' = fed + 1
    /\ UNCHANGED <<event_tx, buffer, routerPc, summary_rx, drained, routerLog, notRouter>>

\* event_rx.recv() or event_rx.recv_timeout(debounce) returns an event,
\* and handle_event takes it.
router_receive ==
    /\ routerPc = "running"
    /\ event_rx # <<>>
    /\ LET r == handle_event(Head(event_rx), buffer, summary_rx, event_tx) IN
       /\ buffer' = r.buffer
       /\ summary_rx' = r.summaries
    /\ event_rx' = Tail(event_rx)
    /\ routerLog' = Append(routerLog, [event |-> Head(event_rx), held |-> buffer])
    /\ UNCHANGED <<event_tx, fed, routerPc, drained, notRouter>>

\* recv_timeout(debounce) returns Timeout: the window passed without a new
\* event.
router_timeout ==
    /\ routerPc = "running"
    /\ buffer # <<>>
    /\ event_rx = <<>>
    /\ event_tx
    /\ summary_rx' = flush_buffer(buffer, summary_rx, event_tx)
    /\ buffer' = <<>>
    /\ UNCHANGED <<event_rx, event_tx, fed, routerPc, drained, routerLog, notRouter>>

\* The channel is closed and empty: recv fails, or recv_timeout returns
\* Disconnected and the rest is flushed; the thread ends.
router_disconnected ==
    /\ routerPc = "running"
    /\ event_rx = <<>>
    /\ ~event_tx
    /\ summary_rx' = flush_buffer(buffer, summary_rx, event_tx)
    /\ buffer' = <<>>
    /\ routerPc' = "ended"
    /\ UNCHANGED <<event_rx, event_tx, fed, drained, routerLog, notRouter>>

\* EventRouter::drain_summaries
drain_summaries ==
    /\ event_tx
    /\ summary_rx # <<>>
    /\ drained' = drained \o summary_rx
    /\ summary_rx' = <<>>
    /\ UNCHANGED <<event_rx, event_tx, fed, buffer, routerPc, routerLog, notRouter>>

\* The EventRouter is dropped: both of its channel ends go.
drop_router ==
    /\ event_tx
    /\ event_tx' = FALSE
    /\ UNCHANGED <<event_rx, fed, buffer, routerPc, summary_rx, drained, routerLog, notRouter>>

NextRouter ==
    \/ feed
    \/ router_receive
    \/ router_timeout
    \/ router_disconnected
    \/ drain_summaries
    \/ drop_router

SpecRouter == InitRouter /\ [][NextRouter]_vars

(***************************************************************************)
(* CaptureScreenTool and the capture bridge (capture.rs, lib.rs): one      *)
(* thread calls the tool, the host drains the requests and submits the     *)
(* results.  The ten seconds of recv_timeout are not measured: the call    *)
(* times out when they pass with the result channel empty.                 *)
(***************************************************************************)
CACHE_MAX_CALLS == 5

MaxCaptureCalls == 9   \* calls of the tool in one run
MaxTimeouts     == 1   \* calls that end in the timeout

\* What the arguments of a call ask for: a capture (window_name or
\* process_name), a crop or OCR of the cached image, or nothing.
ArgKinds == {"capture", "crop", "ocr", "none"}

is_capture(k) == k = "capture"

CaptureRequest(id, k) == [id |-> id, kind |-> k]
CaptureResult(id, image_base64, metadata_json) ==
    [id |-> id, image_base64 |-> image_base64, metadata_json |-> metadata_json]

\* What the host may submit for a request: an image with its metadata, or
\* a text that reports an error.
HostResults(req) ==
    { CaptureResult(req.id, "IMG", <<"Window: X">>),
      CaptureResult(req.id, "", <<"Error", ": window not found">>) }

\* result.metadata_json.starts_with("Error")
starts_with_Error(metadata_json) == metadata_json # <<>> /\ metadata_json[1] = "Error"

\* Faulty variant of expired: the cache goes one call earlier.
expired_early(n) == n >= CACHE_MAX_CALLS

\* `calls > CACHE_MAX_CALLS` on the value fetch_add returned
expired(n) == n > CACHE_MAX_CALLS

\* CaptureScreenTool::call, lines 190-205, for arguments that passed the
\* first check: the counter is incremented, an expired cache is cleared,
\* and a call that is not a capture is refused when there is no cache.
check_cache(k, n, c) ==
    LET kept == IF expired(n) THEN None ELSE c IN
    [calls |-> n + 1, cache |-> kept, accepted |-> is_capture(k) \/ kept # None]

\* CaptureScreenTool::dynamic_description: Some(..) while there is a cache
\* and the counter is at most CACHE_MAX_CALLS.
CaptureScreenTool_dynamic_description(n, c) ==
    IF c # None /\ n <= CACHE_MAX_CALLS
    THEN Some(<<"capture_screen", ". [Cached image: ">> \o c.v \o <<".]">>)
    ELSE None

\* The ToolResult made of a CaptureResult, lines 241-252.
capture_tool_result(r) ==
    IF r.image_base64 = ""
    THEN Ok(ToolResult_text(r.metadata_json))
    ELSE Ok(ToolResult_with_images(r.metadata_json, <<r.image_base64>>))

CallReturn(k, sent, reply, ret) == [kind |-> k, sent |-> sent, reply |-> reply, ret |-> ret]

InitCapture ==
    /\ capCache = None
    /\ calls_since_capture = 0
    /\ capNextId = 1
    /\ capPc = "idle"
    /\ capCur = NoCall
    /\ capRet = NoCallReturn
    /\ request_rx = <<>>
    /\ hostHeld = <<>>
    /\ capture_result_rx = <<>>
    /\ capCalls = 0
    /\ capTimeouts = 0
    /\ capLast = NoLast
    /\ CoreIdle
    /\ ViewIdle
    /\ RouterIdle
    /\ TaskIdle

\* CaptureScreenTool::call up to recv_timeout: the argument check, the
\* cache check, and the request sent with a fresh id.
capture_call ==
    /\ capPc = "idle"
    /\ capCalls < MaxCaptureCalls
    /\ capCalls' = capCalls + 1
    /\ \E k \in ArgKinds :
         IF k = "none"
         THEN /\ capRet' = CallReturn(k, None, None,
                     Err(AgentError("ParseError", <<"Either window_name/process_name ",
                                                    "must be specified">>)))
              /\ UNCHANGED <<capCache, calls_since_capture, capNextId, capPc, capCur,
                             request_rx, capLast>>
         ELSE LET chk == check_cache(k, calls_since_capture, capCache)
                  streak == IF is_capture(k) \/ capLast.streak < 0 THEN -1
                            ELSE capLast.streak + 1
              IN /\ calls_since_capture' = chk.calls
                 /\ capCache' = chk.cache
                 /\ capLast' = [kind |-> k, streak |-> streak, accepted |-> chk.accepted]
                 /\ IF chk.accepted
                    THEN /\ capNextId' = capNextId + 1
                         /\ capCur' = [kind |-> k, id |-> <<"cap_", capNextId>>]
                         /\ request_rx' = Append(request_rx,
                                CaptureRequest(<<"cap_", capNextId>>, k))
                         /\ capPc' = "waiting"
                         /\ UNCHANGED capRet
                    ELSE /\ capRet' = CallReturn(k, None, None,
                                Err(AgentError("ParseError", <<"No cached image.">>)))
                         /\ UNCHANGED <<capNextId, capPc, capCur, request_rx>>
    /\ UNCHANGED <<hostHeld, capture_result_rx, capTimeouts, notCapture>>

\* recv_timeout returned a result: the call updates the cache after a
\* capture that did not fail and returns the result.
capture_call_receive ==
    /\ capPc = "waiting"
    /\ capture_result_rx # <<>>
    /\ LET r == Head(capture_result_rx)
           captured == is_capture(capCur.kind) /\ ~starts_with_Error(r.metadata_json)
       IN /\ capCache' = IF captured THEN Some(r.metadata_json) ELSE capCache
          /\ calls_since_capture' = IF captured THEN 0 ELSE calls_since_capture
          /\ capLast' = IF captured THEN [capLast EXCEPT !.streak = 0] ELSE capLast
          /\ capRet' = CallReturn(capCur.kind, Some(capCur.id), Some(r.id),
                                  capture_tool_result(r))
    /\ capture_result_rx' = Tail(capture_result_rx)
    /\ capPc' = "idle"
    /\ capCur' = NoCall
    /\ UNCHANGED <<capNextId, request_rx, hostHeld, capCalls, capTimeouts, notCapture>>

\* recv_timeout returned Timeout: nothing arrived in ten seconds.
capture_call_timeout ==
    /\ capPc = "waiting"
    /\ capture_result_rx = <<>>
    /\ capTimeouts < MaxTimeouts
    /\ capTimeouts' = capTimeouts + 1
    /\ capRet' = CallReturn(capCur.kind, Some(capCur.id), None,
                            Err(AgentError("InternalError", <<"Capture timeout or error">>)))
    /\ capPc' = "idle"
    /\ capCur' = NoCall
    /\ UNCHANGED <<capCache, calls_since_capture, capNextId, request_rx, hostHeld,
                   capture_result_rx, capCalls, capLast, notCapture>>

\* Agent::drain_capture_requests: the host takes all pending requests.
drain_capture_requests ==
    /\ request_rx # <<>>
    /\ hostHeld' = hostHeld \o request_rx
    /\ request_rx' = <<>>
    /\ UNCHANGED <<capCache, calls_since_capture, capNextId, capPc, capCur, capRet,
                   capture_result_rx, capCalls, capTimeouts, capLast, notCapture>>

\* Agent::submit_capture_result: the host answers the oldest request it
\* holds; an id without the find_ prefix goes to the capture channel.
submit_capture_result ==
    /\ hostHeld # <<>>
    /\ \E r \in HostResults(Head(hostHeld)) :
         capture_result_rx' = Append(capture_result_rx, r)
    /\ hostHeld' = Tail(hostHeld)
    /\ UNCHANGED <<capCache, calls_since_capture, capNextId, capPc, capCur, capRet,
                   request_rx, capCalls, capTimeouts, capLast, notCapture>>

NextCapture ==
    \/ capture_call
    \/ capture_call_receive
    \/ capture_call_timeout
    \/ drain_capture_requests
    \/ submit_capture_result

SpecCapture == InitCapture /\ [][NextCapture]_vars

(***************************************************************************)
(* TaskTool (tool.rs): several threads call the one tool.  A thread that   *)
(* needs a mutex waits until it is free; the guards are dropped when the   *)
(* call returns.                                                           *)
(***************************************************************************)
MaxTaskCalls == 4   \* calls of the tool in one run
MaxTaskId    == 2   \* task ids an update may name

TaskItem(id, status) == [id |-> id, status |-> status]

\* The arguments of a call: the action (None when it is missing or not a
\* string), the task id and the status of an update.
TaskArgs ==
    { [action |-> a, task_id |-> None, status |-> None] :
        a \in {None, Some("create"), Some("list"), Some("remove")} }
    \cup { [action |-> Some("update"), task_id |-> i, status |-> st] :
             i \in {None} \cup { Some(n) : n \in 1..MaxTaskId },
             st \in {None, Some("completed")} }

\* Faulty variant of next_task_id: the counter is left as it is.
next_task_id_kept(id) == id

\* `*next_id += 1`
next_task_id(id) == id + 1

\* The index of the first task with the id, 0 when there is none.
find_task(ts, id) ==
    IF \E i \in 1..Len(ts) : ts[i].id = id
    THEN CHOOSE i \in 1..Len(ts) : ts[i].id = id /\ \A j \in 1..(i - 1) : ts[j].id # id
    ELSE 0

\* The text of the list action.
list_output(ts) ==
    IF ts = <<>> THEN <<"No tasks.">>
    ELSE <<"Tasks:">> \o [i \in 1..Len(ts) |-> <<"#", ts[i].id, ts[i].status>>]

InitTask ==
    /\ tasks = <<>>
    /\ task_next_id = 1
    /\ tasksHeldBy = 0
    /\ nextIdHeldBy = 0
    /\ taskPc = [th \in TaskThreads |-> "idle"]
    /\ taskArgs = [th \in TaskThreads |-> NoTaskArgs]
    /\ taskRet = [th \in TaskThreads |-> None]
    /\ taskCalls = 0
    /\ created = <<>>
    /\ CoreIdle
    /\ ViewIdle
    /\ RouterIdle
    /\ CaptureIdle

\* TaskTool::call up to the first lock: the arguments are read, and the
\* call returns at once when the action or an argument of update is missing
\* or the action is unknown.
task_call(th) ==
    /\ taskPc[th] = "idle"
    /\ taskCalls < MaxTaskCalls
    /\ taskCalls' = taskCalls + 1
    /\ \E a \in TaskArgs :
         /\ taskArgs' = [taskArgs EXCEPT ![th] = a]
         /\ IF a.action = None
            THEN /\ taskRet' = [taskRet EXCEPT ![th] =
                        Some(Err(AgentError("ParseError", <<"Missing action argument">>)))]
                 /\ UNCHANGED taskPc
            ELSE IF a.action.v = "update" /\ a.task_id = None
            THEN /\ taskRet' = [taskRet EXCEPT ![th] =
                        Some(Err(AgentError("ParseError", <<"Missing task_id for update">>)))]
                 /\ UNCHANGED taskPc
            ELSE IF a.action.v = "update" /\ a.status = None
            THEN /\ taskRet' = [taskRet EXCEPT ![th] =
                        Some(Err(AgentError("ParseError", <<"Missing status for update">>)))]
                 /\ UNCHANGED taskPc
            ELSE IF a.action.v \notin {"create", "update", "list"}
            THEN /\ taskRet' = [taskRet EXCEPT ![th] =
                        Some(Err(AgentError("ParseError", <<"Unknown action: ", a.action.v>>)))]
                 /\ UNCHANGED taskPc
            ELSE /\ taskPc' = [taskPc EXCEPT ![th] = "lock_tasks"]
                 /\ taskRet' = [taskRet EXCEPT ![th] = None]
    /\ UNCHANGED <<tasks, task_next_id, tasksHeldBy, nextIdHeldBy, created, notTask>>

\* self.tasks.lock(): every action takes the tasks mutex first.
task_lock_tasks(th) ==
    /\ taskPc[th] = "lock_tasks"
    /\ tasksHeldBy = 0
    /\ tasksHeldBy' = th
    /\ taskPc' = [taskPc EXCEPT ![th] =
            IF taskArgs[th].action.v = "create" THEN "lock_next_id" ELSE "locked"]
    /\ UNCHANGED <<tasks, task_next_id, nextIdHeldBy, taskArgs, taskRet, taskCalls,
                   created, notTask>>

\* self.next_id.lock(): create takes the next_id mutex while it holds the
\* tasks mutex.
task_lock_next_id(th) ==
    /\ taskPc[th] = "lock_next_id"
    /\ nextIdHeldBy = 0
    /\ nextIdHeldBy' = th
    /\ taskPc' = [taskPc EXCEPT ![th] = "locked"]
    /\ UNCHANGED <<tasks, task_next_id, tasksHeldBy, taskArgs, taskRet, taskCalls,
                   created, notTask>>

\* The rest of the call under the locks, up to the return that drops the
\* guards.
task_locked(th) ==
    /\ taskPc[th] = "locked"
    /\ LET a == taskArgs[th] IN
       IF a.action.v = "create"
       THEN LET id == task_next_id IN
            /\ task_next_id' = next_task_id(task_next_id)
            /\ tasks' = Append(tasks, TaskItem(id, "pending"))
            /\ created' = Append(created, id)
            /\ taskRet' = [taskRet EXCEPT ![th] =
                   Some(Ok(ToolResult_text(<<"Created task #", id>>)))]
       ELSE IF a.action.v = "update"
       THEN LET i == find_task(tasks, a.task_id.v) IN
            /\ IF i = 0
               THEN /\ taskRet' = [taskRet EXCEPT ![th] =
                           Some(Err(AgentError("InternalError",
                                               <<"Task #", a.task_id.v, " not found">>)))]
                    /\ UNCHANGED tasks
               ELSE /\ tasks' = [tasks EXCEPT ![i].status = a.status.v]
                    /\ taskRet' = [taskRet EXCEPT ![th] =
                           Some(Ok(ToolResult_text(<<"Updated task #", a.task_id.v,
                                                     a.status.v>>)))]
            /\ UNCHANGED <<task_next_id, created>>
       ELSE /\ taskRet' = [taskRet EXCEPT ![th] =
                   Some(Ok(ToolResult_text(list_output(tasks))))]
            /\ UNCHANGED <<tasks, task_next_id, created>>
    /\ tasksHeldBy' = 0
    /\ nextIdHeldBy' = IF nextIdHeldBy = th THEN 0 ELSE nextIdHeldBy
    /\ taskPc' = [taskPc EXCEPT ![th] = "idle"]
    /\ UNCHANGED <<taskArgs, taskCalls, notTask>>

NextTask ==
    \/ \E th \in TaskThreads : task_call(th)
    \/ \E th \in TaskThreads : task_lock_tasks(th)
    \/ \E th \in TaskThreads : task_lock_next_id(th)
    \/ \E th \in TaskThreads : task_locked(th)

SpecTask == InitTask /\ [][NextTask]_vars

(***************************************************************************)
(* Claims about the stdio server.                                          *)
(***************************************************************************)
RECURSIVE RepliesOf(_)
RepliesOf(log) ==
    IF log = <<>> THEN <<>>
    ELSE RepliesOf(SubSeq(log, 1, Len(log) - 1)) \o log[Len(log)].replies

\* The line decodes into a JsonRpcRequest.
Parses(line) == ~is_blank(line) /\ from_str(line).ok

\* A notification in the sense of the specification: a request whose id
\* member is absent.
IsNotificationLine(line) == Parses(line) /\ line.id = Absent

\* A line that has to be answered: it is not blank, and it either fails to
\* parse or is a request carrying an id member.
NeedsReply(line) == ~is_blank(line) /\ ~IsNotificationLine(line)

NeedingReply(log) == {i \in 1..Len(log) : NeedsReply(log[i].line)}

\* C1: while the writer accepts what is written, the number of reply lines
\* on the output equals the number of lines read that are neither blank nor
\* notifications (requests with an id member, and lines that fail to
\* parse), and each such line got exactly one reply, every other line none.
C1_OneReplyPerRequest ==
    srvPc # "returned_err" =>
        /\ Len(srvOut) = Cardinality(NeedingReply(srvLog))
        /\ \A i \in 1..Len(srvLog) :
             Len(srvLog[i].replies) = IF NeedsReply(srvLog[i].line) THEN 1 ELSE 0

\* The same count when a request with an explicit null id is set aside.
HasIdValue(line) == Parses(line) /\ line.id # Absent /\ line.id # JNull
AnsweredKind(line) == ~is_blank(line) /\ (~from_str(line).ok \/ HasIdValue(line))
OneReplyPerIdentifiedRequest ==
    srvPc # "returned_err" =>
        /\ srvOut = RepliesOf(srvLog)
        /\ \A i \in 1..Len(srvLog) :
             Len(srvLog[i].replies) = IF AnsweredKind(srvLog[i].line) THEN 1 ELSE 0

\* C2: a request without an id is never answered and never reaches a
\* tool: the run loop writes nothing for such a line (the output is exactly
\* the replies to the other lines) and makes no tool access call, and
\* process() returns None for it without a tool access call, whatever the
\* method is.
C2_NotificationSilent ==
    /\ srvOut = RepliesOf(srvLog)
    /\ \A i \in 1..Len(srvLog) :
         IsNotificationLine(srvLog[i].line) =>
             /\ srvLog[i].replies = <<>>
             /\ srvLog[i].tcalls = <<>>
             /\ srvLog[i].io = "ok"
    /\ (procReq # None /\ procReq.v.id = None) =>
             /\ procRet.ret = None
             /\ procRet.tcalls = <<>>

\* C2 witness: the loop has read a tools/call notification naming a
\* registered tool and an unknown-method notification.
C2_Witness ==
    /\ Len(srvLog) = 2
    /\ IsNotificationLine(srvLog[1].line)
    /\ srvLog[1].line.method = "tools/call"
    /\ srvLog[1].line.params = JParams(TRUE, "tasks")
    /\ IsNotificationLine(srvLog[2].line)
    /\ srvLog[2].line.method = "prompts/list"
    /\ srvOut = <<>>

\* A tools/call request (not a notification for the server) whose params
\* name the tool `name`.
IsToolsCall(request) ==
    /\ ~is_notification(request)
    /\ request.method = "tools/call"
    /\ request.params # None
    /\ from_value_ToolsCallParams(request.params.v).ok

NamedTool(request) == from_value_ToolsCallParams(request.params.v).v.name

\* The response to a tool access call: one text block with the tool's text
\* or the error's message; is_error is Some(true) exactly for an error.
ReportsOutcome(resp, c) ==
    /\ resp.error = None
    /\ resp.result # None
    /\ Len(resp.result.v.content) = 1
    /\ resp.result.v.content[1].type = "text"
    /\ IF c.ret.ok
       THEN /\ resp.result.v.content[1].text = c.ret.v.text
            /\ resp.result.v.is_error = None
       ELSE /\ resp.result.v.content[1].text = to_string(c.ret.e)
            /\ resp.result.v.is_error = Some(TRUE)

HasCallParams(request) ==
    /\ request.method = "tools/call"
    /\ request.params # None
    /\ from_value_ToolsCallParams(request.params.v).ok

\* The cause a JSON-RPC error code stands for.
ProtocolFault(line) ==
    IF ~from_str(line).ok THEN PARSE_ERROR
    ELSE LET r == from_str(line).v IN
         IF r.method \notin {"initialize", "tools/list", "tools/call"}
         THEN METHOD_NOT_FOUND
         ELSE IF r.method = "tools/call" /\ ~HasCallParams(r)
         THEN INVALID_PARAMS
         ELSE 0

\* C4: a tools/call whose params deserialize never yields a JSON-RPC error
\* object: every failure of the tool access layer (handler failure, unknown
\* tool, tool not allowed) is a success envelope with is_error = Some(true).
\* An error object appears only for a parse failure (-32700), an unknown
\* method (-32601) and missing or invalid params (-32602).
C4_ToolFailureIsData ==
    /\ \A i \in 1..Len(srvLog) :
         LET e == srvLog[i] IN
         /\ (Parses(e.line) /\ HasCallParams(from_str(e.line).v)) =>
               \A k \in 1..Len(e.replies) :
                  /\ e.replies[k].error = None
                  /\ Len(e.tcalls) = 1
                  /\ ~e.tcalls[1].ret.ok => e.replies[k].result.v.is_error = Some(TRUE)
         /\ \A k \in 1..Len(e.replies) :
               e.replies[k].error # None =>
                  /\ e.replies[k].result = None
                  /\ e.replies[k].error.v.code = ProtocolFault(e.line)
                  /\ e.replies[k].error.v.code
                        \in {PARSE_ERROR, METHOD_NOT_FOUND, INVALID_PARAMS}
                  /\ e.tcalls = <<>>
    /\ (procReq # None /\ HasCallParams(procReq.v) /\ procRet.ret # None) =>
         /\ procRet.ret.v.error = None
         /\ ~procRet.tcalls[1].ret.ok => procRet.ret.v.result.v.is_error = Some(TRUE)

\* C4 witness: a filtered view rejected "blocked" as not allowed and found
\* no handler for "ghost"; both came back as is_error results.
C4_Witness ==
    /\ Len(srvLog) = 2 /\ Len(srvOut) = 2
    /\ srvTools.allowed # None
    /\ Len(srvLog[1].tcalls) = 1 /\ ~srvLog[1].tcalls[1].handler
    /\ srvLog[1].tcalls[1].ret = Err(AgentError("InternalError", <<"Tool not allowed: ", "blocked">>))
    /\ Len(srvLog[2].tcalls) = 1 /\ ~srvLog[2].tcalls[1].handler
    /\ srvLog[2].tcalls[1].ret = Err(AgentError("InternalError", <<"Unknown tool: ", "ghost">>))
    /\ srvOut[1].error = None /\ srvOut[1].result.v.is_error = Some(TRUE)
    /\ srvOut[2].error = None /\ srvOut[2].result.v.is_error = Some(TRUE)

\* Every tool access call the server made, from the line loop and from
\* process().
ServerToolCalls ==
    {srvLog[i].tcalls[1] : i \in {k \in 1..Len(srvLog) : srvLog[k].tcalls # <<>>}}
        \cup (IF procRet # None /\ procRet.tcalls # <<>> THEN {procRet.tcalls[1]} ELSE {})

NotAllowedError(name) == Err(AgentError("InternalError", <<"Tool not allowed: ", name>>))
UnknownToolError(name) == Err(AgentError("InternalError", <<"Unknown tool: ", name>>))

\* C14: a filtered view answers a call to a name outside its allow-list with
\* the "Tool not allowed" error and runs no handler, also when the registry
\* behind it has a handler of that name; the error is not the "Unknown tool"
\* error, which the view gives for an allowed name without a handler.
C14_FilteredRejects ==
    srvTools.allowed # None =>
        \A c \in ServerToolCalls :
            /\ ~InSeq(c.name, srvTools.allowed.v) =>
                  /\ c.ret = NotAllowedError(c.name)
                  /\ ~c.handler
                  /\ c.ret # UnknownToolError(c.name)
            /\ (InSeq(c.name, srvTools.allowed.v) /\ ~InSeq(c.name, srvTools.tools)) =>
                  c.ret = UnknownToolError(c.name) /\ ~c.handler

\* C14 witness: the view was asked for "blocked", which the registry has a
\* handler for and the allow-list does not name.
C14_Witness ==
    /\ srvTools.allowed # None
    /\ Len(srvLog) = 1 /\ Len(srvLog[1].tcalls) = 1
    /\ srvLog[1].tcalls[1].name = "blocked"
    /\ InSeq("blocked", srvTools.tools)
    /\ srvLog[1].tcalls[1].ret = NotAllowedError("blocked")
    /\ srvOut[1].result.v.content[1].text =
          <<"Internal error: ", "Tool not allowed: ", "blocked">>

\* A line that is not blank and does not decode into a JsonRpcRequest.
Malformed(line) == ~is_blank(line) /\ ~from_str(line).ok

IsParseErrorReply(resp) ==
    /\ resp.id = JNull
    /\ resp.result = None
    /\ resp.error # None
    /\ resp.error.v.code = PARSE_ERROR

\* C16: a line that fails to decode is answered with exactly one error
\* response (code -32700, id null) and no tool access call; handling it
\* leaves the loop reading; and every line handled in the run, before or
\* after a malformed one, gets the replies it gets on its own, so the output
\* is the concatenation of the per-line replies.
C16_ParseErrorContinues ==
    /\ [](/\ \A i \in 1..Len(srvLog) :
               LET e == srvLog[i] IN
               /\ (Malformed(e.line) /\ e.io = "ok") =>
                     /\ Len(e.replies) = 1
                     /\ IsParseErrorReply(e.replies[1])
                     /\ e.tcalls = <<>>
               /\ e.io = "ok" =>
                     \E h \in HandlerOutcomes :
                         /\ e.replies = serve(e.line, srvTools, h).replies
                         /\ e.tcalls = serve(e.line, srvTools, h).tcalls
          /\ srvPc # "returned_err" => srvOut = RepliesOf(srvLog))
    /\ [][(/\ Len(srvLog') = Len(srvLog) + 1
           /\ Malformed(srvLog'[Len(srvLog')].line)
           /\ srvLog'[Len(srvLog')].io = "ok") =>
              /\ srvPc' = "reading"
              /\ Len(srvOut') = Len(srvOut) + 1
              /\ IsParseErrorReply(srvOut'[Len(srvOut')])]_vars

\* C16 witness: a line that is not JSON was answered, and the tools/list
\* request after it got its result.
C16_Witness ==
    /\ Len(srvLog) = 2 /\ Len(srvOut) = 2
    /\ srvLog[1].line.kind = "text"
    /\ IsParseErrorReply(srvOut[1])
    /\ srvLog[2].line.method = "tools/list" /\ srvLog[2].line.id = JNum(1)
    /\ srvOut[2].error = None /\ srvOut[2].id = JNum(1)
    /\ srvPc = "reading"

KnownMethods == {"initialize", "tools/list", "tools/call"}

IsMethodNotFound(resp) ==
    /\ resp.result = None
    /\ resp.error # None
    /\ resp.error.v.code = METHOD_NOT_FOUND

\* C17: a request that carries an id member and names a method other than
\* initialize, tools/list and tools/call is answered with one error response
\* of code -32601 without a result, and no tool access call is made.
C17_UnknownMethod ==
    /\ \A i \in 1..Len(srvLog) :
         LET e == srvLog[i] IN
         (/\ Parses(e.line) /\ e.line.id # Absent
          /\ e.line.method \notin KnownMethods
          /\ e.io = "ok") =>
             /\ Len(e.replies) = 1
             /\ IsMethodNotFound(e.replies[1])
             /\ e.tcalls = <<>>
    /\ (procReq # None /\ procReq.v.id # None /\ procReq.v.method \notin KnownMethods) =>
             /\ procRet.ret # None
             /\ IsMethodNotFound(procRet.ret.v)
             /\ procRet.tcalls = <<>>

\* The same for requests whose id member has a value (a number or a string).
UnknownMethodWithIdValue ==
    /\ \A i \in 1..Len(srvLog) :
         LET e == srvLog[i] IN
         (/\ HasIdValue(e.line)
          /\ e.line.method \notin KnownMethods
          /\ e.io = "ok") =>
             /\ Len(e.replies) = 1
             /\ IsMethodNotFound(e.replies[1])
             /\ e.replies[1].id = e.line.id
             /\ e.tcalls = <<>>
    /\ (procReq # None /\ procReq.v.id # None /\ procReq.v.method \notin KnownMethods) =>
             /\ procRet.ret # None
             /\ IsMethodNotFound(procRet.ret.v)
             /\ procRet.tcalls = <<>>

UnknownMethodAnswered ==
    /\ Len(srvLog) = 1
    /\ HasIdValue(srvLog[1].line)
    /\ srvLog[1].line.method = "prompts/list"
    /\ Len(srvOut) = 1 /\ IsMethodNotFound(srvOut[1])

\* A tools/call the server dispatches whose params are missing (absent or
\* null) or do not decode into ToolsCallParams.
BadCallParams(request) ==
    /\ ~is_notification(request)
    /\ request.method = "tools/call"
    /\ (request.params = None \/ ~from_value_ToolsCallParams(request.params.v).ok)

IsInvalidParams(resp) ==
    /\ resp.result = None
    /\ resp.error # None
    /\ resp.error.v.code = INVALID_PARAMS

HttpRpcResponses ==
    IF httpResp # None /\ parse_sse_response(httpResp.v.resp.body).ok
    THEN {parse_sse_response(httpResp.v.resp.body).v} ELSE {}

ServerResponses ==
    {srvOut[i] : i \in 1..Len(srvOut)}
        \cup UNION {{srvLog[i].replies[k] : k \in 1..Len(srvLog[i].replies)} :
                        i \in 1..Len(srvLog)}
        \cup (IF procRet # None /\ procRet.ret # None THEN {procRet.ret.v} ELSE {})
        \cup HttpRpcResponses

\* Members `result` and `error` of the serialized response.
ExactlyOneMember(resp) ==
    LET obj == serialize_JsonRpcResponse(resp).obj IN
    (obj.result = Absent) # (obj.error = Absent)

\* C19: every JsonRpcResponse produced by the stdio server and by the HTTP
\* server has exactly one of result and error, as a value and as serialized;
\* every HTTP body that carries an event carries such a response.
C19_ResultXorError ==
    /\ \A resp \in ServerResponses :
         /\ (resp.result = None) # (resp.error = None)
         /\ ExactlyOneMember(resp)
    /\ (httpResp # None /\ httpResp.v.resp.status = 200) =>
         /\ HttpRpcResponses # {}
         /\ LET obj == extract_sse_data(httpResp.v.resp.body).obj IN
            (obj.result = Absent) # (obj.error = Absent)

\* C19 witness: a result and an error on the line loop's output.
C19_Witness ==
    /\ Len(srvOut) = 2
    /\ srvOut[1].result # None /\ srvOut[1].error = None
    /\ srvOut[2].result = None /\ srvOut[2].error # None
    /\ srvOut[2].error.v.code = METHOD_NOT_FOUND

\* C20: for a POST whose body decodes into a JsonRpcRequest, the HTTP
\* server answers what process() gives for that request over the same tools
\* with the same handler outcome: Some(response) becomes one SSE event (one
\* data line, Content-Type text/event-stream) whose data decodes to exactly
\* that response, with the same tool access calls; None becomes a 202 with
\* an empty body, so no JSON-RPC response at all.
C20_HttpMatchesProcess ==
    httpReq # None =>
        LET q == httpReq.v.request
            r == httpResp.v
        IN (q.method = "POST" /\ q.readable /\ from_str(q.body).ok) =>
              LET p == process(from_str(q.body).v, srvTools, httpReq.v.h) IN
              /\ r.tcalls = p.tcalls
              /\ IF p.ret = None
                 THEN /\ r.resp.status = 202
                      /\ r.resp.body = <<>>
                 ELSE /\ r.resp.status = 200
                      /\ content_type_sse \in r.resp.headers
                      /\ Len(SelectSeq(r.resp.body, IsDataLine)) = 1
                      /\ parse_sse_response(r.resp.body) = Ok(p.ret.v)

\* C20 witness: a tools/call POSTed to a filtered view came back as an SSE
\* event carrying the is_error result of the tool access call.
C20_Witness ==
    /\ httpReq # None /\ httpResp # None
    /\ httpReq.v.request.method = "POST"
    /\ httpReq.v.request.body.method = "tools/call"
    /\ httpReq.v.request.body.id = JNum(1)
    /\ Len(httpResp.v.tcalls) = 1
    /\ httpResp.v.resp.status = 200
    /\ parse_sse_response(httpResp.v.resp.body).ok
    /\ parse_sse_response(httpResp.v.resp.body).v.id = JNum(1)
    /\ parse_sse_response(httpResp.v.resp.body).v.result.v.is_error = Some(TRUE)

\* A notification POSTed to the HTTP server was accepted without a body.
HttpNotificationAccepted ==
    /\ httpReq # None
    /\ httpReq.v.request.method = "POST"
    /\ httpReq.v.request.body.id = Absent
    /\ httpReq.v.request.body.method = "notifications/initialized"
    /\ httpResp.v.resp.status = 202

\* The last request the HTTP server answered was a POST whose body it read
\* and could not decode into a JsonRpcRequest.
UnparsablePost(q) == q.method = "POST" /\ q.readable /\ ~from_str(q.body).ok

\* The response is a 200 with one SSE event carrying the parse error.
IsHttpParseError(r) ==
    /\ r.status = 200
    /\ content_type_sse \in r.headers
    /\ Len(SelectSeq(r.body, IsDataLine)) = 1
    /\ parse_sse_response(r.body).ok
    /\ LET resp == parse_sse_response(r.body).v IN
       /\ resp.id = JNull
       /\ resp.result = None
       /\ resp.error # None /\ resp.error.v.code = PARSE_ERROR
    /\ extract_sse_data(r.body).obj.id = JNull

ParsedPost(q) == q.method = "POST" /\ q.readable /\ from_str(q.body).ok

\* The values of the Mcp-Session-Id headers of a response.
SessionIdsOf(r) == {hd.value : hd \in {x \in r.headers : x.name = "Mcp-Session-Id"}}

\* C22: a valid notification (no id member) POSTed to the HTTP server is
\* answered with status 202, an empty body (so no SSE frame and no event
\* stream content type) and the server's session id header; every response
\* to a decoded request or notification carries exactly one session id,
\* the one of the server, and any two consecutive such responses carry the
\* same value.
C22_NotificationAccepted ==
    /\ [](httpReq # None /\ ParsedPost(httpReq.v.request) =>
            LET q == httpReq.v.request
                r == httpResp.v.resp
            IN /\ SessionIdsOf(r) = {ServerSessionId}
               /\ q.body.id = Absent =>
                     /\ r.status = 202
                     /\ r.body = <<>>
                     /\ content_type_sse \notin r.headers
                     /\ ~parse_sse_response(r.body).ok)
    /\ [][(/\ httpReq # None /\ ParsedPost(httpReq.v.request)
            /\ httpReq' # None /\ ParsedPost(httpReq'.v.request)) =>
              SessionIdsOf(httpResp'.v.resp) = SessionIdsOf(httpResp.v.resp)]_vars

\* C22 witness: a notification was accepted with a 202 that names the
\* server's session, while another connection waits to be served.
C22_Witness ==
    /\ httpReq # None /\ ParsedPost(httpReq.v.request)
    /\ httpReq.v.request.body.id = Absent
    /\ httpReq.v.request.body.method = "notifications/initialized"
    /\ httpResp.v.resp.status = 202 /\ httpResp.v.resp.body = <<>>
    /\ session_id_header(ServerSessionId) \in httpResp.v.resp.headers
    /\ httpPending > 0

\* C23: a request whose method is not POST is answered with status 405
\* and the header Allow: POST whatever its body is (readable or not, a
\* JSON-RPC request or not): the body carries no JSON-RPC response and no
\* tool access call was made.
C23_MethodNotAllowed ==
    (httpReq # None /\ httpReq.v.request.method # "POST") =>
        LET r == httpResp.v.resp IN
        /\ r.status = 405
        /\ Header("Allow", "POST") \in r.headers
        /\ r.body = <<TextLine("", Raw("Method Not Allowed"))>>
        /\ ~parse_sse_response(r.body).ok
        /\ httpResp.v.tcalls = <<>>

\* C23 witness: a GET whose body cannot be read got the 405.
C23_Witness ==
    /\ httpReq # None
    /\ httpReq.v.request.method = "GET" /\ ~httpReq.v.request.readable
    /\ httpResp.v.resp.status = 405
    /\ Header("Allow", "POST") \in httpResp.v.resp.headers

\* A GET whose body names a registered tool got the 405 and called nothing.
GetWithCallRefused ==
    /\ httpReq # None
    /\ httpReq.v.request.method = "GET"
    /\ httpReq.v.request.body.method = "tools/call"
    /\ httpResp.v.resp.status = 405 /\ httpResp.v.tcalls = <<>>

\* The request being dispatched has entered a tool handler, which may take
\* any time to return.
InToolCall ==
    /\ httpCur # None
    /\ LET d == dispatch_http_request(srvTools, ServerSessionId,
                                      httpCur.v.request, httpCur.v.h)
       IN d.tcalls # <<>> /\ d.tcalls[1].handler

\* C28: the HTTP server handles connections concurrently: while a request
\* is inside a tool call, a connection that has arrived can be taken and
\* dispatched without waiting for that call to return.
C28_ConcurrentDispatch ==
    (InToolCall /\ httpPending > 0) => ENABLED handle_http_request

\* What the loop does instead: a request is taken only when no other is
\* being dispatched, so a response always belongs to the one request taken.
OneRequestAtATime ==
    [][/\ (httpCur' # httpCur /\ httpCur' # None) => httpCur = None
       /\ httpResp' # httpResp => (httpCur # None /\ httpReq' = httpCur /\ httpCur' = None)]_vars

\* C30: a decoded request is a notification exactly when its id member is
\* absent.  A request that carries an id member, the JSON null included,
\* is a request: the line loop writes exactly one reply for it and the HTTP
\* server answers it with one SSE event; a request without the member gets
\* no reply line and a 202.
C30_NotificationIffIdAbsent ==
    /\ srvPc # "returned_err" =>
          \A i \in 1..Len(srvLog) :
              Parses(srvLog[i].line) =>
                  Len(srvLog[i].replies) = IF srvLog[i].line.id = Absent THEN 0 ELSE 1
    /\ (httpReq # None /\ ParsedPost(httpReq.v.request)) =>
          LET q == httpReq.v.request
              r == httpResp.v.resp
          IN IF q.body.id = Absent
             THEN r.status = 202 /\ r.body = <<>>
             ELSE r.status = 200 /\ parse_sse_response(r.body).ok

\* What the servers do with an explicit null id: the line loop writes
\* nothing for it and the HTTP server answers 202, as for a notification.
NullIdTakenForNotification ==
    /\ \A l \in {x \in Lines : from_str(x).ok} :
          is_notification(from_str(l).v) <=> l.id \in {Absent, JNull}
    /\ \A i \in 1..Len(srvLog) :
          (Parses(srvLog[i].line) /\ srvLog[i].line.id = JNull) => srvLog[i].replies = <<>>
    /\ (httpReq # None /\ ParsedPost(httpReq.v.request)
            /\ httpReq.v.request.body.id = JNull) =>
          httpResp.v.resp.status = 202 /\ httpResp.v.resp.body = <<>>

\* A tools/list with a null id was POSTed and got the 202.
NullIdAccepted ==
    /\ httpReq # None /\ ParsedPost(httpReq.v.request)
    /\ httpReq.v.request.body.id = JNull
    /\ httpReq.v.request.body.method = "tools/list"
    /\ httpResp.v.resp.status = 202

\* C33: every response the stdio server writes for a line that parsed
\* into a request carries the id member of that line, as the same JSON
\* value, whether it is a result or an error; the responses with id null
\* are the parse-error replies to lines that did not parse, and no others.
\* process() hands back the id of its request in the same way.
C33_IdEchoed ==
    /\ \A i \in 1..Len(srvLog) :
         LET e == srvLog[i] IN
         \A k \in 1..Len(e.replies) :
            /\ Parses(e.line) => e.replies[k].id = e.line.id
            /\ e.replies[k].id = JNull <=>
                  (~Parses(e.line) /\ IsParseErrorReply(e.replies[k]))
    /\ \A k \in 1..Len(srvOut) :
         \E i \in 1..Len(srvLog) :
            \E n \in 1..Len(srvLog[i].replies) : srvLog[i].replies[n] = srvOut[k]
    /\ (procReq # None /\ procRet.ret # None) => procRet.ret.v.id = procReq.v.id.v

\* C33 witness: a result went out with the number the request carried, and
\* an error response with the string the other request carried.
C33_Witness ==
    /\ Len(srvLog) = 2 /\ Len(srvOut) = 2
    /\ srvLog[1].line.method = "tools/list" /\ srvLog[1].line.id = JNum(1)
    /\ srvOut[1].result # None /\ srvOut[1].id = JNum(1)
    /\ srvLog[2].line.method = "prompts/list" /\ srvLog[2].line.id = JStr("a")
    /\ IsMethodNotFound(srvOut[2]) /\ srvOut[2].id = JStr("a")

\* The number of reply lines written for the first n lines of the log.
RECURSIVE WrittenFor(_, _)
WrittenFor(log, n) ==
    IF n = 0 THEN 0 ELSE WrittenFor(log, n - 1) + Len(log[n].replies)

\* C34: the replies are on the output in the order of the lines that caused
\* them: the reply to an answered line stands at the position given by the
\* number of replies to the lines up to it, so before the reply to any later
\* line; and the iteration that reads a line leaves the output as it was,
\* followed by that line's reply, before another line is read.
C34_RepliesInOrder ==
    /\ [](\A i \in 1..Len(srvLog) :
             srvLog[i].replies # <<>> =>
                /\ WrittenFor(srvLog, i) <= Len(srvOut)
                /\ srvOut[WrittenFor(srvLog, i)] = srvLog[i].replies[1]
                /\ \A j \in 1..Len(srvLog) :
                      (i < j /\ srvLog[j].replies # <<>>) =>
                          WrittenFor(srvLog, i) < WrittenFor(srvLog, j))
    /\ [][Len(srvLog') = Len(srvLog) + 1 =>
             /\ SubSeq(srvLog', 1, Len(srvLog)) = srvLog
             /\ Len(srvOut') = Len(srvOut) + Len(srvLog'[Len(srvLog')].replies)
             /\ SubSeq(srvOut', 1, Len(srvOut)) = srvOut
             /\ SubSeq(srvOut', Len(srvOut) + 1, Len(srvOut'))
                   = srvLog'[Len(srvLog')].replies]_vars

\* C34 witness: two requests were answered, with different replies, and the
\* reply to the first stands first.
C34_Witness ==
    /\ Len(srvLog) = 2 /\ Len(srvOut) = 2
    /\ srvLog[1].replies # <<>> /\ srvLog[2].replies # <<>>
    /\ srvLog[1].replies # srvLog[2].replies
    /\ srvLog[1].line.id = JStr("a") /\ srvLog[2].line.id = JNum(1)
    /\ srvOut[1].id = JStr("a") /\ srvOut[2].id = JNum(1)

(***************************************************************************)
(* Claims about the ReAct loop.                                            *)
(***************************************************************************)
Terminal == reactPc \in {"Done", "Failed", "Error"}

\* The tool calls the model asked for in its first `n` invocations.
RECURSIVE CallsAsked(_, _)
CallsAsked(log, n) ==
    IF n = 0 THEN 0 ELSE CallsAsked(log, n - 1) + Len(log[n].resp.calls)

\* C5: a tool call that returns an error does not abort the run.  Its
\* result message, pushed right after the transcript the call started
\* with, is the plain tool-result message with the call's id and name and
\* the text "Error executing tool '<name>': <message>"; no call of a turn is
\* left unexecuted when the run has ended; and the run ends after a failed
\* call only once the model was invoked again, unless max_iterations left
\* no further iteration.
C5_ToolErrorIsObservation ==
    /\ \A j \in 1..Len(toolLog) :
         LET e == toolLog[j] IN
         ~e.ret.ok =>
            /\ Len(messages) > e.before
            /\ messages[e.before + 1] =
                  ChatMessage_tool_result(e.call.id, e.call.name,
                      <<"Error executing tool '", e.call.name, "': ">>
                          \o to_string(e.ret.e))
            /\ Terminal => (Len(modelLog) > e.turn \/ e.turn = max_iter)
            /\ reactPc = "Error" => modelLog[Len(modelLog)].resp.kind = "Err"
    /\ reactPc # "ExecuteTools" => Len(toolLog) = CallsAsked(modelLog, Len(modelLog))
    /\ reactPc = "ExecuteTools" =>
          Len(toolLog) = CallsAsked(modelLog, Len(modelLog) - 1) + callIdx

\* C5 witness: the first call of a turn failed in its handler, the second
\* call of the turn was executed, and the model was invoked again.
C5_Witness ==
    /\ Len(toolLog) >= 2
    /\ ~toolLog[1].ret.ok /\ toolLog[1].handler
    /\ toolLog[2].turn = toolLog[1].turn
    /\ Len(modelLog) > toolLog[1].turn

AlwaysToolCalls == \A i \in 1..Len(modelLog) : modelLog[i].resp.kind = "ToolCalls"

\* C6: with max_iterations = N the model is never invoked more than N
\* times; a run whose model answered every invocation with tool calls ends
\* only as Failed, after exactly N invocations, with the "exceeded maximum
\* iterations" error, never with Ok; and Failed is entered in no other way.
C6_ExhaustionAfterN ==
    /\ Len(modelLog) <= max_iter
    /\ (Terminal /\ AlwaysToolCalls) =>
          /\ reactPc = "Failed"
          /\ Len(modelLog) = max_iter
          /\ result = Some(Err(AgentError("InternalError",
                 <<"ReAct loop exceeded maximum iterations (", ToString(max_iter), ")">>)))
    /\ reactPc = "Failed" =>
          /\ AlwaysToolCalls
          /\ Len(modelLog) = max_iter
          /\ ~result.v.ok
    /\ (result # None /\ result.v.ok) => ~AlwaysToolCalls

\* C6 witness: N = 2, two invocations answered with tool calls, tools were
\* executed, and the run has failed.
C6_Witness ==
    /\ max_iter = 2
    /\ reactPc = "Failed"
    /\ Len(modelLog) = 2
    /\ Len(toolLog) >= 2

\* C7: run returns Ok only in the iteration in which the model returned
\* text: the Ok value is that text and reasoning, the transcript is as the
\* model saw it in that invocation, no tool ran in that iteration, and that
\* invocation was the last one.
C7_TextIsOnlySuccess ==
    /\ (result # None /\ result.v.ok) <=> reactPc = "Done"
    /\ reactPc = "Done" =>
          LET last == modelLog[Len(modelLog)] IN
          /\ last.resp.kind = "Text"
          /\ result.v.v = [content |-> last.resp.content,
                           reasoning |-> last.resp.reasoning]
          /\ Len(messages) = last.seen
          /\ \A j \in 1..Len(toolLog) : toolLog[j].turn < Len(modelLog)
          /\ last.iteration = iteration
    /\ \A i \in 1..Len(modelLog) :
          modelLog[i].resp.kind = "Text" => (i = Len(modelLog) /\ reactPc = "Done")

\* C7 witness: the model returned text with reasoning after a turn of tool
\* calls.
C7_Witness ==
    /\ reactPc = "Done"
    /\ Len(modelLog) = 2
    /\ result.v.v.reasoning # None
    /\ Len(toolLog) = 2

\* The calls of turn `i` that were executed so far.
ExecutedOf(i) == {j \in 1..Len(toolLog) : toolLog[j].turn = i}

\* C8: the calls of a turn run one at a time in list order, and their
\* result messages follow the assistant message in that order: the k-th
\* call of the turn started when the results of the k-1 calls before it
\* were already in the transcript, and the k-th message after the assistant
\* message is a tool result with the id and name of the k-th call.
C8_SequentialInOrder ==
    \A i \in 1..Len(modelLog) :
       LET t  == modelLog[i]
           cs == t.resp.calls
       IN t.resp.kind = "ToolCalls" =>
            /\ messages[t.seen + 1] = ChatMessage_assistant_tool_calls(cs)
            /\ Cardinality(ExecutedOf(i)) <= Len(cs)
            /\ \A j \in ExecutedOf(i) :
                 LET k == toolLog[j].before - t.seen IN
                 /\ k \in 1..Len(cs)
                 /\ toolLog[j].call = cs[k]
                 /\ \A j2 \in ExecutedOf(i) : j2 < j <=> toolLog[j2].before < toolLog[j].before
                 /\ Cardinality({j2 \in ExecutedOf(i) : j2 < j}) = k - 1
                 /\ messages[t.seen + 1 + k].role = "Tool"
                 /\ messages[t.seen + 1 + k].tool_call_id = Some(cs[k].id)
                 /\ messages[t.seen + 1 + k].tool_name = Some(cs[k].name)

\* C8 witness: a turn of two different calls was executed completely.
C8_Witness ==
    /\ Len(modelLog) >= 1
    /\ Len(modelLog[1].resp.calls) = 2
    /\ modelLog[1].resp.calls[1] # modelLog[1].resp.calls[2]
    /\ Cardinality(ExecutedOf(1)) = 2

\* C9: when the model's first answer is k tool calls, all of which succeed,
\* and its second answer is text, there are exactly 2 invocations and the
\* run is Done with the transcript grown by one assistant tool_calls
\* message followed by k tool-result messages; the text is not appended.
C9_ToolThenText ==
    (/\ Len(modelLog) >= 2
     /\ modelLog[1].resp.kind = "ToolCalls"
     /\ modelLog[2].resp.kind = "Text"
     /\ \A j \in 1..Len(toolLog) : toolLog[j].ret.ok) =>
        LET cs == modelLog[1].resp.calls
            k  == Len(cs)
        IN /\ Len(modelLog) = 2
           /\ reactPc = "Done"
           /\ Len(toolLog) = k
           /\ Len(messages) = Len(initial) + 1 + k
           /\ SubSeq(messages, 1, Len(initial)) = initial
           /\ messages[Len(initial) + 1] = ChatMessage_assistant_tool_calls(cs)
           /\ \A n \in 1..k :
                /\ messages[Len(initial) + 1 + n].role = "Tool"
                /\ messages[Len(initial) + 1 + n].tool_call_id = Some(cs[n].id)
                /\ messages[Len(initial) + 1 + n].content = toolLog[n].ret.v.text

\* C9 witness: one successful call, then text, starting from a transcript
\* of one user message.
C9_Witness ==
    /\ reactPc = "Done"
    /\ Len(modelLog) = 2
    /\ Len(modelLog[1].resp.calls) = 1
    /\ Len(toolLog) = 1 /\ toolLog[1].ret.ok
    /\ Len(initial) = 1
    /\ Len(messages) = 3

\* C15: ToolRegistry::call with a name no handler has returns the "Unknown
\* tool" error and runs no handler; with a registered name it runs that
\* handler (once per call: one log entry) and returns what the handler
\* returned, result or error, unchanged.
C15_RegistryCall ==
    reactTools.allowed = None =>
        \A j \in 1..Len(toolLog) :
            LET e == toolLog[j] IN
            IF InSeq(e.call.name, reactTools.tools)
            THEN e.handler /\ e.outcome # None /\ e.ret = e.outcome.v
            ELSE /\ ~e.handler /\ e.outcome = None
                 /\ e.ret = Err(AgentError("InternalError", <<"Unknown tool: ", e.call.name>>))

\* C15 witness: the registry was asked for "ghost" (no handler) and for
\* "tasks", whose handler failed.
C15_Witness ==
    /\ reactTools.allowed = None
    /\ \E i, j \in 1..Len(toolLog) :
         /\ toolLog[i].call.name = "ghost" /\ ~toolLog[i].handler
         /\ toolLog[j].call.name = "tasks" /\ toolLog[j].handler
         /\ ~toolLog[j].ret.ok
         /\ toolLog[j].ret.e.kind = "ParseError"

\* The kind McpClient::send_request gives an error object in a reply.
ProtocolErrorKind == reply_outcome(NoRequest, [kind |-> "error"]).e.kind

\* The kind the HTTP client gives a failure of the transport, which is also
\* the kind run gives a failure of chat_with_tools.
TransportErrorKind == http_reply_outcome(NoRequest, [kind |-> "transport"]).e.kind

\* The kinds of the errors the tool calls of this run returned.
ToolErrorKinds == { toolLog[i].ret.e.kind : i \in {j \in 1..Len(toolLog) : ~toolLog[j].ret.ok} }

\* run has returned the error of the exhausted loop.
Exhausted == reactPc = "Failed" /\ result # None /\ ~result.v.ok

\* C26: when run fails because max_iterations was exhausted, the kind of
\* the error it returns is not the kind of a protocol error, not the kind of
\* any tool-execution error and not the kind of a transport error.
C26_ExhaustionKindDistinct ==
    Exhausted =>
        /\ result.v.e.kind # ProtocolErrorKind
        /\ result.v.e.kind \notin ToolErrorKinds
        /\ result.v.e.kind # TransportErrorKind

\* What the code keeps of C26: the exhaustion error differs in kind from the
\* transport error (and from the error run returns when the model call
\* fails), and it is told apart from the others by its message alone.
ExhaustionNotTransport ==
    /\ Exhausted =>
          /\ result.v.e.kind # TransportErrorKind
          /\ result.v.e.msg[1] = "ReAct loop exceeded maximum iterations ("
    /\ (reactPc = "Error" /\ result # None) => result.v.e.kind = TransportErrorKind

\* The loop ran out after a tool call had failed with the kind the
\* exhaustion error has.
ExhaustedAfterToolError ==
    /\ Exhausted
    /\ max_iter > 0
    /\ result.v.e.kind \in ToolErrorKinds

\* C27: in every CallModel step the tool definitions passed to the model
\* are the registry's definitions at the time of that step: after a tool
\* call of iteration i changed a handler's dynamic description, the model
\* invocation of iteration i+1 receives the changed description.
C27_CurrentDefinitions ==
    [][Len(modelLog') > Len(modelLog) =>
          modelLog'[Len(modelLog')].defs = get_tool_definitions(reactTools, cache)]_vars

\* What the code does instead: every model invocation of a run receives
\* the definitions of the registry as they were when run was entered.
DefinitionsAsAtEntry ==
    \A i \in 1..Len(modelLog) :
        modelLog[i].defs = get_tool_definitions(reactTools, NoCache)

\* A tool call of one iteration filled a handler's cache, and the model
\* invocation of the next iteration was given the description without it.
StaleDefinitionsPassed ==
    \E i \in 1..Len(toolLog) :
        /\ toolLog[i].handler /\ toolLog[i].ret.ok /\ toolLog[i].ret.v.images # <<>>
        /\ dynamic_description(toolLog[i].call.name, cache) # None
        /\ Len(modelLog) > toolLog[i].turn
        /\ \E k \in 1..Len(tool_defs) :
              /\ tool_defs[k].name = toolLog[i].call.name
              /\ modelLog[toolLog[i].turn + 1].defs[k].description
                    = description(toolLog[i].call.name)
              /\ get_tool_definitions(reactTools, cache)[k].description
                    # description(toolLog[i].call.name)

\* C35: run returns an error in two cases only: the model invocation
\* failed, which is returned as NetworkError at once, with no model or tool
\* call after it; or max_iterations was exhausted.  A tool call, whatever
\* the tool access layer returned for it (unknown tool, tool not allowed,
\* failure of the handler), never ends the run and never sets its result.
C35_ErrorsOfRun ==
    /\ []((result # None /\ ~result.v.ok) =>
             \/ /\ reactPc = "Error"
                /\ modelLog # <<>>
                /\ modelLog[Len(modelLog)].resp.kind = "Err"
                /\ result.v.e = AgentError("NetworkError",
                                           modelLog[Len(modelLog)].resp.content)
                /\ \A j \in 1..Len(toolLog) : toolLog[j].turn < Len(modelLog)
             \/ /\ reactPc = "Failed"
                /\ ~loop_continues(iteration, max_iter)
                /\ result.v = exhausted_result(max_iter)
                /\ \A i \in 1..Len(modelLog) : modelLog[i].resp.kind = "ToolCalls")
    /\ [](\A i \in 1..Len(modelLog) :
             modelLog[i].resp.kind = "Err" =>
                 /\ i = Len(modelLog)
                 /\ reactPc = "Error")
    /\ [][Terminal => UNCHANGED <<modelLog, toolLog, messages, result>>]_vars
    /\ [][Len(toolLog') > Len(toolLog) =>
             /\ result = None /\ result' = None
             /\ reactPc' \in {"ExecuteTools", "CallModel"}]_vars

\* C35 witness: tool calls failed as unknown tool and in the handler, the
\* run went on to the next model invocation, and that invocation failed:
\* the run ended with the NetworkError of the model.
C35_Witness ==
    /\ reactPc = "Error"
    /\ result # None /\ ~result.v.ok /\ result.v.e.kind = "NetworkError"
    /\ \E i, j \in 1..Len(toolLog) :
         /\ ~toolLog[i].ret.ok /\ ~toolLog[i].handler
         /\ ~toolLog[j].ret.ok /\ toolLog[j].handler

\* C36: run only appends to the transcript.  At every point of the run,
\* and whether it ends in Ok or in an error, the transcript the caller
\* passed in is a prefix of the current one, and every step leaves the
\* messages that were there in place, in order and unmodified; what
\* completed iterations appended stays when a later iteration fails.
C36_AppendOnly ==
    /\ [](/\ Len(messages) >= Len(initial)
          /\ SubSeq(messages, 1, Len(initial)) = initial)
    /\ [][/\ Len(messages') >= Len(messages)
          /\ SubSeq(messages', 1, Len(messages)) = messages
          /\ initial' = initial]_vars

\* C36 witness: the caller's transcript had a message, an iteration
\* appended the assistant message and a tool result, and the next model
\* invocation failed: the run ended in the error with all three in place.
C36_Witness ==
    /\ reactPc = "Error"
    /\ initial = <<ChatMessage_user(<<"Hi">>)>>
    /\ Len(messages) = 3
    /\ messages[1] = initial[1]
    /\ messages[2].role = "Assistant"
    /\ messages[3].role = "Tool"

\* The positions of the assistant tool_calls messages run appended.
AppendedCallMessages ==
    {p \in (Len(initial) + 1)..Len(messages) : messages[p].tool_calls # None}

\* The tool-result messages after position p that carry the id `id`.
ResultsFor(p, id) ==
    {q \in (p + 1)..Len(messages) :
        messages[q].role = "Tool" /\ messages[q].tool_call_id = Some(id)}

\* run is about to invoke the model.
AboutToCallModel == reactPc = "CallModel" /\ loop_continues(iteration, max_iter)

\* C37: whenever run invokes the model, every tool call of an assistant
\* tool_calls message that run appended has exactly one tool-result message
\* with its id after it in the transcript.
C37_OneResultPerCallId ==
    AboutToCallModel =>
        \A p \in AppendedCallMessages :
            \A k \in 1..Len(messages[p].tool_calls.v) :
                Cardinality(ResultsFor(p, messages[p].tool_calls.v[k].id)) = 1

\* The ids of all the calls run recorded are pairwise different.
CallIdsDistinct ==
    \A p1, p2 \in AppendedCallMessages :
        \A k1 \in 1..Len(messages[p1].tool_calls.v), k2 \in 1..Len(messages[p2].tool_calls.v) :
            messages[p1].tool_calls.v[k1].id = messages[p2].tool_calls.v[k2].id
                => (p1 = p2 /\ k1 = k2)

\* What the code keeps of C37: at a model invocation the k-th call of an
\* appended tool_calls message is followed, k messages later, by the
\* tool-result message with its id and name, and the next message after
\* those results is not a tool result; so when the model's ids are pairwise
\* different, each call has exactly one result with its id.
ResultsFollowCalls ==
    AboutToCallModel =>
        /\ \A p \in AppendedCallMessages :
              LET cs == messages[p].tool_calls.v IN
              /\ p + Len(cs) <= Len(messages)
              /\ \A k \in 1..Len(cs) :
                    /\ messages[p + k].role = "Tool"
                    /\ messages[p + k].tool_call_id = Some(cs[k].id)
                    /\ messages[p + k].tool_name = Some(cs[k].name)
              /\ p + Len(cs) < Len(messages) => messages[p + Len(cs) + 1].role # "Tool"
        /\ CallIdsDistinct =>
              \A p \in AppendedCallMessages :
                  \A k \in 1..Len(messages[p].tool_calls.v) :
                      Cardinality(ResultsFor(p, messages[p].tool_calls.v[k].id)) = 1

\* The model asked twice for a call with the same id in one response, both
\* were executed, and run is about to invoke the model with two results
\* under that id.
DuplicateIdAnswered ==
    /\ AboutToCallModel
    /\ \E p \in AppendedCallMessages :
         LET cs == messages[p].tool_calls.v IN
         /\ Len(cs) = 2 /\ cs[1].id = cs[2].id
         /\ Cardinality(ResultsFor(p, cs[1].id)) = 2

(***************************************************************************)
(* Claims about the MCP clients.                                           *)
(***************************************************************************)
\* Threads whose request line is written and whose reply line is not read.
InFlight == {t \in Threads : cpc[t] = "req_read"}

\* Request lines the child has not read, plus replies the client has not read.
OnThePipe ==
    Cardinality({i \in 1..Len(child_stdin) : child_stdin[i].id # None})
        + Len(child_stdout)

\* C10: for one McpClient shared by concurrent callers at most one request
\* is in flight: the thread that wrote a request holds the transport lock
\* until it has read the reply line, at most one request or unread reply is
\* on the pipes, and while a request awaits its reply no other line (request
\* or notification) is written to the child.
C10_OneRequestInFlight ==
    /\ [](/\ Cardinality(InFlight) <= 1
          /\ \A t \in InFlight : transport = Some(t)
          /\ OnThePipe <= 1)
    /\ [][InFlight # {} => wire' = wire]_vars

\* Two callers contend: one has written its request and waits for the reply,
\* the other has taken its id and waits for the lock.
C10_Witness ==
    \E a, b \in Callers :
        /\ a # b
        /\ cpc[a] = "req_read" /\ cpc[b] = "req_lock"
        /\ child = "running"
        /\ wire[Len(wire)] = RequestLine(cur[a].id, "tools/call", a)

\* The client is gone: connect failed, or every holder of the Arc let go.
ClientDropped == refs = {}

\* C13: the subprocess of the stdio client is killed and waited for exactly
\* when the client is dropped, whether connect failed at a handshake step or
\* the caller and every remote tool proxy released it.  Once the client is
\* dropped the child is reaped (not running, not a zombie) and the slot is
\* empty; a failed connect leaves no holder; the kill and wait happen at
\* most once and never while somebody still holds the client.
C13_ChildKilledOnEveryExit ==
    client_kind = "stdio" =>
        /\ kills <= 1
        /\ phase = "failed" => ClientDropped
        /\ ClientDropped => child = "reaped" /\ kills = 1 /\ child_slot = "None"
        /\ ~ClientDropped => kills = 0 /\ child_slot = "Some" /\ child # "reaped"

\* The client connected, a proxy called a tool, and then the caller and all
\* proxies dropped the client while the child was still running until then.
C13_Witness ==
    /\ client_kind = "stdio"
    /\ phase = "connected" /\ ClientDropped
    /\ \E i \in 1..Len(wire) : wire[i].method = "tools/call"
    /\ child = "reaped" /\ kills = 1

\* The other exit path: connect failed at tools/list after initialize and
\* the notification succeeded.
ConnectFailedLate ==
    /\ client_kind = "stdio"
    /\ phase = "failed" /\ Len(handshake) = 3 /\ ~handshake[3].ok
    /\ child = "reaped" /\ kills = 1

\* The messages of the handshake, in the order connect sends them.
HandshakeOrder == <<"initialize", "notifications/initialized", "tools/list">>

\* Step n of the handshake has returned Ok to connect.
StepDone(n) == Len(handshake) >= n /\ handshake[n].ok

\* C11: connect of either client sends initialize, then (once its
\* InitializeResult is decoded) notifications/initialized, then tools/list,
\* whose tools it caches.  A step is sent only after the one before it has
\* returned Ok; tools/call is sent only by a proxy of a connected client,
\* after all three steps; a step that fails is the last one: connect
\* returns the error, nobody holds a client and no tools/call is ever sent.
C11_HandshakeOrder ==
    /\ \A i \in 1..Len(wire) :
          wire[i].method = IF i <= 3 THEN HandshakeOrder[i] ELSE "tools/call"
    /\ \A i \in 1..Len(handshake) : handshake[i].step = HandshakeOrder[i]
    /\ \A n \in 1..2 : Len(wire) > n => StepDone(n)
    /\ \A n \in 1..3 : Len(handshake) > n => StepDone(n)
    /\ (Len(wire) > 3 \/ \E t \in Callers : t \in refs \/ cpc[t] # "idle") =>
          /\ phase = "connected"
          /\ \A n \in 1..3 : StepDone(n)
    /\ phase = "connected" <=> (Len(handshake) = 3 /\ StepDone(3))
    /\ phase = "connected" =>
          /\ client_tools = <<"tasks">>
          /\ client_kind = "stdio" => server_info = Some("server")
    /\ (\E i \in 1..Len(handshake) : ~handshake[i].ok) <=> phase = "failed"
    /\ phase = "failed" =>
          /\ refs = {} /\ Len(wire) <= 3
          /\ \A t \in Threads : cpc[t] = "idle"

\* The HTTP client finished its handshake and a proxy sent a tools/call.
C11_Witness ==
    /\ client_kind = "http"
    /\ phase = "connected" /\ Len(handshake) = 3
    /\ Len(wire) > 3 /\ wire[4].method = "tools/call" /\ wire[4].from \in Callers

\* The same for the stdio client.
StdioHandshakeDone ==
    /\ client_kind = "stdio"
    /\ phase = "connected" /\ Len(handshake) = 3
    /\ Len(wire) > 3 /\ wire[4].method = "tools/call" /\ wire[4].from \in Callers

\* connect failed at the first step: the initialize reply was no
\* InitializeResult, and nothing else was sent.
ConnectFailedEarly ==
    /\ phase = "failed" /\ Len(handshake) = 1 /\ Len(wire) = 1
    /\ last_ret.sent.ok /\ ~last_ret.value.ok

\* `text` is the texts of the blocks of `content`, in order, with one
\* newline between neighbours (every block of CallResults is one fragment).
JoinedWithNewline(content, text) ==
    /\ Len(text) = IF content = <<>> THEN 0 ELSE 2 * Len(content) - 1
    /\ \A i \in 1..Len(content) : text[2 * i - 1] = content[i].text[1]
    /\ \A i \in 1..(Len(content) - 1) : text[2 * i] = "\n"

\* The last call that returned was a call_tool whose tools/call got a
\* response with a result.
CallToolAnswered ==
    /\ last_ret.method = "tools/call"
    /\ last_ret.reply # None
    /\ last_ret.reply.v.kind = "result"

\* C12: call_tool of the stdio client and call_tool of the HTTP client do
\* the same with a successful tools/call reply: whichever client made the
\* call, what it returned is what either call_tool computes from that
\* reply; when the result is a ToolsCallResult the texts of its blocks are
\* joined with newlines and returned as Ok(text), unless is_error is
\* Some(true), when the call returns InternalError carrying that text.
C12_CallToolSameSemantics ==
    CallToolAnswered =>
        LET reply == last_ret.reply.v
            r     == reply.result
            value == last_ret.value
        IN /\ value = McpClient_call_tool(reply_outcome(NoRequest, reply))
           /\ value = McpHttpClient_call_tool(http_reply_outcome(NoRequest, reply))
           /\ r.shape = "ToolsCallResult" =>
                 IF r.v.is_error = Some(TRUE)
                 THEN /\ ~value.ok
                      /\ value.e.kind = "InternalError"
                      /\ JoinedWithNewline(r.v.content, value.e.msg)
                 ELSE /\ value.ok
                      /\ JoinedWithNewline(r.v.content, value.v)

\* The stdio client got a two-block result flagged is_error.
C12_Witness ==
    /\ client_kind = "stdio"
    /\ CallToolAnswered
    /\ last_ret.reply.v.result.shape = "ToolsCallResult"
    /\ last_ret.reply.v.result.v.is_error = Some(TRUE)
    /\ last_ret.value = Err(AgentError("InternalError", <<"a", "\n", "b">>))

\* The HTTP client got the same reply and returned the same.
HttpCallToolFlagged ==
    /\ client_kind = "http"
    /\ CallToolAnswered
    /\ last_ret.reply.v.result.shape = "ToolsCallResult"
    /\ last_ret.reply.v.result.v.is_error = Some(TRUE)
    /\ last_ret.value = Err(AgentError("InternalError", <<"a", "\n", "b">>))

\* The HTTP client got two blocks without the flag: Ok of the joined text.
HttpCallToolOk ==
    /\ client_kind = "http"
    /\ CallToolAnswered
    /\ last_ret.value = Ok(<<"a", "\n", "b">>)

\* Thread t sends a message in this step: the POST of a request it built,
\* or a notification.
HttpSends(t) ==
    \/ cpc[t] = "http_post" /\ cpc'[t] = "http_wait"
    \/ cpc[t] = "idle" /\ cpc'[t] = "http_ntf_wait"

\* C24: every request and every notification the HTTP client sends
\* carries the Mcp-Session-Id of the most recent response that had one,
\* and none as long as no response had one.
C24_SessionIdAttached ==
    [][\A t \in Threads : HttpSends(t) => hdr'[t] = last_sid]_vars

\* What the client does: it sends the session id it holds when it builds
\* the message, and it holds the one of the last response to a request
\* that send_string returned, if there was one.
SessionIdAsHeld ==
    [][/\ \A t \in Threads :
            (cpc[t] = "idle" /\ cpc'[t] \in {"http_post", "http_ntf_wait"})
                => hdr'[t] = cli_session_id
       /\ cli_session_id' # cli_session_id =>
            /\ cli_session_id' = last_sid'
            /\ \E t \in Threads : cpc[t] = "http_wait" /\ cpc'[t] = "idle"
                                   /\ ResponseKept(last_ret'.reply.v)]_vars

\* The client holds a session id and a proxy has built a tools/call that
\* carries it.
SessionIdSent ==
    /\ client_kind = "http" /\ phase = "connected"
    /\ cli_session_id = Some("s1") /\ last_sid = Some("s1")
    /\ \E t \in Callers : cpc[t] = "http_wait" /\ hdr[t] = Some("s1")

\* The failures of the HTTP exchange itself, and the replies that were
\* decoded and carry an error object.
TransportFailure(o) == o.kind \in {"transport", "status", "unreadable"}
ProtocolFailure(o) == o.kind = "error"

\* C25: in the HTTP client a failure of the transport (connection failure,
\* error status, unreadable body) is returned as NetworkError, by
\* send_request and by the caller that passes it on, and an error object in
\* a decoded reply is returned as an error of another kind, never as
\* NetworkError.
C25_NetworkErrorKind ==
    (client_kind = "http" /\ last_ret # NoReturn) =>
        LET o == last_ret.reply.v IN
        /\ TransportFailure(o) =>
              /\ ~last_ret.sent.ok /\ last_ret.sent.e.kind = "NetworkError"
              /\ last_ret.value = last_ret.sent
        /\ ProtocolFailure(o) =>
              /\ ~last_ret.sent.ok /\ last_ret.sent.e.kind # "NetworkError"
              /\ last_ret.value = last_ret.sent
        /\ (~last_ret.value.ok /\ last_ret.value.e.kind = "NetworkError")
              => TransportFailure(o)

\* C25 witness: a tools/call of a connected HTTP client was answered with
\* an error status and call_tool returned the NetworkError.
C25_Witness ==
    /\ client_kind = "http" /\ phase = "connected"
    /\ last_ret.method = "tools/call"
    /\ last_ret.reply.v.kind = "status"
    /\ last_ret.value = Err(AgentError("NetworkError", <<"HTTP status from MCP server">>))

\* A tools/call answered with an error object came back as InternalError.
HttpProtocolErrorReturned ==
    /\ client_kind = "http" /\ phase = "connected"
    /\ last_ret.method = "tools/call"
    /\ last_ret.reply.v.kind = "error"
    /\ last_ret.value = Err(AgentError("InternalError", <<"MCP error">>))

(***************************************************************************)
(* Claims about the SSE helpers.                                           *)
(***************************************************************************)
\* C29: for every JsonRpcResponse r, decoding the SSE event made of r, and
\* decoding the bare JSON encoding of r, succeeds and gives back a response
\* equal to r.
C29_SseRoundTrip ==
    ssePc = "parsed" => sseParsed.v = Ok(sseResp.v)

\* What holds: decoding always succeeds and keeps jsonrpc and id, both
\* encodings decode to the same value, and the response comes back equal
\* unless its result, or the data of its error, is the JSON null, which
\* comes back as None.
SseRoundTripButNull ==
    ssePc = "parsed" =>
        LET r == sseResp.v
            p == sseParsed.v
        IN /\ p.ok
           /\ p = parse_sse_response(format_sse_event(r))
           /\ p = parse_sse_response(<<TextLine("", serialize_JsonRpcResponse(r))>>)
           /\ p.v.jsonrpc = r.jsonrpc /\ p.v.id = r.id
           /\ (r.result # Some(JNull) /\ (r.error # None => r.error.v.data # Some(JNull)))
                 => p.v = r
           /\ r.result = Some(JNull) => p.v.result = None /\ p.v.error = None

\* An event carrying a tools/call result came back as it was.
SseRoundTripDone ==
    /\ ssePc = "parsed" /\ Len(sseBody) = 3
    /\ sseResp.v.result # None /\ sseResp.v.result.v # JNull
    /\ sseParsed.v = Ok(sseResp.v)


(***************************************************************************)
(* Claims about the filtered view.                                         *)
(***************************************************************************)
\* An error of the view itself, not of a handler.
RefusedByView(c) ==
    /\ ~c.ret.ok /\ c.ret.e.kind = "InternalError"
    /\ c.ret.e.msg[1] \in {"Tool not allowed: ", "Unknown tool: "}

\* C38: the operations of a filtered view agree with each other:
\* get_definitions() names exactly the registered handlers whose name is on
\* the allow-list, in registration order; a call of such a name reaches a
\* handler and returns what the handler returned; a call of any other name
\* reaches no handler; and is_empty() is true exactly when
\* get_definitions() is empty.
C38_ViewConsistent ==
    /\ viewDefs # None =>
          /\ viewDefs.v = SelectSeq(view.tools, LAMBDA n : InSeq(n, view.allowed.v))
          /\ \A n \in ToolNames :
                InSeq(n, viewDefs.v) <=> (InSeq(n, view.tools) /\ InSeq(n, view.allowed.v))
    /\ (viewDefs # None /\ viewCall # None) =>
          /\ InSeq(viewCall.v.name, viewDefs.v) =>
                (viewCall.v.handler /\ ~RefusedByView(viewCall.v))
          /\ ~InSeq(viewCall.v.name, viewDefs.v) =>
                (~viewCall.v.handler /\ RefusedByView(viewCall.v))
    /\ (viewDefs # None /\ viewEmpty # None) =>
          (viewEmpty.v <=> viewDefs.v = <<>>)

\* C38 witness: the registry has a handler that is not on the allow-list
\* and the allow-list names no registered handler: the view lists nothing,
\* says it is empty, and refused the call of the registered name.
C38_Witness ==
    /\ view.tools # <<>> /\ view.allowed.v # <<>>
    /\ viewDefs = Some(<<>>)
    /\ viewEmpty = Some(TRUE)
    /\ viewCall # None
    /\ InSeq(viewCall.v.name, view.tools)
    /\ ~viewCall.v.handler

\* The view lists a handler, says it is not empty, and the call of the
\* listed name returned the handler's own error.
ViewCallReachedHandler ==
    /\ viewDefs # None /\ viewDefs.v # <<>>
    /\ viewEmpty = Some(FALSE)
    /\ viewCall # None
    /\ InSeq(viewCall.v.name, viewDefs.v)
    /\ viewCall.v.handler /\ ~viewCall.v.ret.ok

(***************************************************************************)
(* Claims about the EventRouter.                                           *)
(***************************************************************************)
\* The summaries sent so far, in the order they were sent.
Emitted == drained \o summary_rx

\* This step is the router thread receiving a user-speech event while the
\* router is in use.
ReceivesUserSpeech ==
    /\ Len(routerLog') = Len(routerLog) + 1
    /\ routerLog'[Len(routerLog')].event.source = "user"
    /\ event_tx

\* This step is the debounce window elapsing over a buffer that holds
\* events.
WindowElapses ==
    /\ buffer # <<>> /\ buffer' = <<>>
    /\ event_tx /\ event_tx'

\* The buffer holds exactly the other events received since the last flush.
BufferKept ==
    [][Len(routerLog') = Len(routerLog) + 1 =>
          LET ev == routerLog'[Len(routerLog')].event IN
          /\ routerLog'[Len(routerLog')].held = buffer
          /\ buffer' = IF ev.source = "user" THEN buffer ELSE Append(buffer, ev)]_vars

\* The thread has received user speech while the buffer held events that
\* are still in it.
SpeechOverBuffer ==
    \E i \in 1..Len(routerLog) :
        /\ routerLog[i].event.source = "user"
        /\ routerLog[i].held # <<>>
        /\ Len(buffer) >= Len(routerLog[i].held)
        /\ SubSeq(buffer, 1, Len(routerLog[i].held)) = routerLog[i].held
        /\ \A j \in (i + 1)..Len(routerLog) : routerLog[j].held # <<>>

\* C31 as stated: a user-speech event is emitted as a High summary in the
\* step in which the router thread receives it, whatever the debounce
\* window, and the buffer is left as it is; the events that were buffered
\* when the speech arrived are emitted as one Normal summary when the
\* window elapses with no new event.
C31_UserSpeechImmediate ==
    /\ [][ReceivesUserSpeech =>
             /\ summary_rx' = Append(summary_rx,
                    EventSummary(routerLog'[Len(routerLog')].event.text, "High"))
             /\ buffer' = buffer]_vars
    /\ BufferKept
    /\ [](routerPc = "running" /\ buffer # <<>> /\ event_rx = <<>> /\ event_tx
             => ENABLED router_timeout)
    /\ [][(WindowElapses /\ SpeechOverBuffer) =>
             /\ Len(summary_rx') = Len(summary_rx) + 1
             /\ SubSeq(summary_rx', 1, Len(summary_rx)) = summary_rx
             /\ summary_rx'[Len(summary_rx')].priority = "Normal"]_vars

\* C31 with the summary of the buffer as the code makes it: a user-speech
\* event is emitted as a High summary in the step in which the router
\* thread receives it and leaves the buffer as it is; when the window
\* elapses with no new event the whole buffer is summarized, and if it has
\* anything to report (a tool of interest, a file, a Stop) exactly one
\* Normal summary with that text is emitted, else none.
C31_UserSpeechImmediateReported ==
    /\ [][ReceivesUserSpeech =>
             /\ summary_rx' = Append(summary_rx,
                    EventSummary(routerLog'[Len(routerLog')].event.text, "High"))
             /\ buffer' = buffer]_vars
    /\ BufferKept
    /\ [](routerPc = "running" /\ buffer # <<>> /\ event_rx = <<>> /\ event_tx
             => ENABLED router_timeout)
    /\ [][WindowElapses =>
             IF summarize(buffer) # None
             THEN summary_rx' = Append(summary_rx,
                                       EventSummary(summarize(buffer).v, "Normal"))
             ELSE summary_rx' = summary_rx]_vars

\* C31 witness: the thread received user speech while an Edit hook event
\* was buffered, the speech went out with High priority at once, and after
\* the window elapsed the hook event went out as one Normal summary.
C31_Witness ==
    /\ Len(routerLog) = 2
    /\ routerLog[1].event.source = "hook"
    /\ routerLog[2].event.source = "user" /\ routerLog[2].held = <<routerLog[1].event>>
    /\ buffer = <<>>
    /\ Emitted = << EventSummary(routerLog[2].event.text, "High"),
                    EventSummary(<<"[Claude Code Update] ", "Tools used: ", "Edit", " x", "1",
                                   ". ", "Files: ", "a.rs">>, "Normal") >>

\* User speech arrived over a buffer that held only an event with nothing
\* to report; when the window elapsed the buffer was emptied and no
\* Normal summary was sent.
QuietBufferDropped ==
    /\ Len(routerLog) = 2
    /\ routerLog[2].event.source = "user" /\ routerLog[2].held # <<>>
    /\ buffer = <<>> /\ event_tx /\ event_rx = <<>> /\ fed = 2
    /\ Emitted = <<EventSummary(routerLog[2].event.text, "High")>>

(***************************************************************************)
(* Claims about CaptureScreenTool.                                         *)
(***************************************************************************)
NoCachedImage == Err(AgentError("ParseError", <<"No cached image.">>))

\* The last call that got past the argument check was the k-th call in a
\* row, since the last successful capture, that is not a capture.
NonCaptureInRow(k) ==
    /\ capLast.kind # ""
    /\ ~is_capture(capLast.kind)
    /\ capLast.streak = k

\* A cached image is advertised exactly when a call that is not a capture
\* would be accepted now.
DescriptionMatchesCache ==
    (CaptureScreenTool_dynamic_description(calls_since_capture, capCache) # None)
        <=> check_cache("crop", calls_since_capture, capCache).accepted

\* A call that is refused at the cache check returns 'No cached image'.
RefusedWithNoCachedImage ==
    (capCalls' = capCalls + 1 /\ capPc' = "idle" /\ capRet'.kind # "none")
        => capRet'.ret = NoCachedImage

\* C32: after a successful capture the calls that are not captures are
\* accepted up to the (CACHE_MAX_CALLS + 1)-th in a row and refused from the
\* next one on, with 'No cached image'; the counter is the number of such
\* calls since the last successful capture, which sets it to zero; and the
\* description advertises a cached image exactly when the next call that is
\* not a capture would be accepted.
C32_CacheWindow ==
    /\ [](\A k \in 1..MaxCaptureCalls :
            NonCaptureInRow(k) => (capLast.accepted <=> k <= CACHE_MAX_CALLS + 1))
    /\ [](capLast.streak >= 0 => calls_since_capture = capLast.streak)
    /\ []DescriptionMatchesCache
    /\ [][RefusedWithNoCachedImage]_vars

\* The (CACHE_MAX_CALLS + 2)-th call in a row was refused, and no cached
\* image is advertised any more.
C32_Witness ==
    /\ NonCaptureInRow(CACHE_MAX_CALLS + 2)
    /\ ~capLast.accepted
    /\ capRet.ret = NoCachedImage
    /\ CaptureScreenTool_dynamic_description(calls_since_capture, capCache) = None

\* The (CACHE_MAX_CALLS + 1)-th call in a row was accepted and answered.
LastCachedCallAnswered ==
    /\ NonCaptureInRow(CACHE_MAX_CALLS + 1)
    /\ capLast.accepted
    /\ capPc = "idle"
    /\ capRet.reply # None

\* C39: the result a call returns is the reply to the request this call
\* sent: the id of the result is the id of the request.
C39_ReplyOfOwnRequest ==
    capRet.reply # None => capRet.reply = capRet.sent

\* While no call has timed out, every call gets the reply to its request.
ReplyOfOwnRequestWithoutTimeout ==
    (capTimeouts = 0 /\ capRet.reply # None) => capRet.reply = capRet.sent

\* A call returned the reply to the request of an earlier call.
StaleReplyReturned ==
    /\ capRet.reply # None
    /\ capRet.reply # capRet.sent

\* A capture cached the image of the reply to an earlier call.
StaleReplyCached ==
    /\ StaleReplyReturned
    /\ is_capture(capRet.kind)
    /\ capLast.streak = 0
    /\ capCache # None


(***************************************************************************)
(* Claims about TaskTool.                                                  *)
(***************************************************************************)
\* A thread is inside a call: it waits for a mutex or holds one.
InTaskCall(th) == taskPc[th] # "idle"

\* Some thread inside a call can take its next step.
SomeTaskCallProceeds ==
    \E th \in TaskThreads :
        \/ taskPc[th] = "lock_tasks" /\ tasksHeldBy = 0
        \/ taskPc[th] = "lock_next_id" /\ nextIdHeldBy = 0
        \/ taskPc[th] = "locked"

\* C40: under every interleaving of create, update and list calls from
\* several threads the create calls report the ids 1, 2, 3, ... without gap
\* or duplicate, every created task is in the list exactly once (the list
\* holds the ids 1..n in this order), and no call is stuck on the tool's
\* mutexes: whenever a thread is inside a call some thread inside a call can
\* proceed.
C40_TaskToolGuarded ==
    /\ \A i \in 1..Len(created) : created[i] = i
    /\ Len(tasks) = Len(created)
    /\ \A i \in 1..Len(tasks) : tasks[i].id = i
    /\ task_next_id = Len(tasks) + 1
    /\ (\E th \in TaskThreads : InTaskCall(th)) => SomeTaskCallProceeds

\* Two creates ran while the other thread was waiting for the tasks mutex,
\* and both tasks are stored.
C40_Witness ==
    /\ Len(created) >= 2
    /\ \E th \in TaskThreads : taskPc[th] = "lock_tasks" /\ tasksHeldBy # 0
    /\ \E th \in TaskThreads : taskPc[th] = "locked" /\ nextIdHeldBy = th
    /\ \E th \in TaskThreads : taskArgs[th].action = Some("update")

\* The mutexes are held as the code takes them: next_id only under tasks.
LockOrder ==
    /\ nextIdHeldBy # 0 => tasksHeldBy = nextIdHeldBy
    /\ \A th \in TaskThreads :
         /\ taskPc[th] \in {"lock_next_id", "locked"} <=> tasksHeldBy = th
         /\ nextIdHeldBy = th => taskPc[th] = "locked"

=============================================================================
